---- MODULE Spec2Model ----
(***************************************************************************)
(* Workflow execution core of contentpilot-demo: the task registry         *)
(* (src/lib/server/task-registry.ts), the workflow runner                  *)
(* (executeWorkflowRun and its stage executors) and the run entry point    *)
(* (app/api/workflow/run/route.ts).                                        *)
(*                                                                         *)
(* JavaScript values are represented as follows.                           *)
(*   undefined string        Undef                                         *)
(*   undefined number/date   NoTime                                        *)
(*   undefined object        NoRec                                         *)
(*   undefined array         << >>                                         *)
(*   object spread {...a,...b}   Spread(a, b); a key of b whose value is   *)
(*                           undefined still overrides the key of a        *)
(*   ISO timestamps          integer clock readings (toISOString and       *)
(*                           Date.parse are inverse at ms resolution)      *)
(* One request of the entry point is in flight at a time; its synchronous  *)
(* sections are atomic and it suspends only while a stage executor awaits  *)
(* its outbound call.  The clock advances by one tick per outbound call.    *)
(***************************************************************************)
EXTENDS Integers, Sequences, FiniteSets, TLC

VARIABLES
  registry,   \* globalThis.__contentpilotTaskRegistry : taskId -> snapshot
  now,        \* wall clock (Date.now())
  pc,         \* position of the in-flight POST: idle, await, returned
  body,       \* JSON body of the in-flight request
  taskId,     \* taskId computed by the entry point
  options,    \* WorkflowRunOptions handed to executeWorkflowRun
  resumed,    \* persisted # null in executeWorkflowRun
  resumeIndex,
  index,      \* loop variable of executeWorkflowRun, counted from 1
  steps,      \* step log of the running invocation
  bundle,     \* bundle of the running invocation
  startedAt,  \* local startedAt of the step being executed
  result,     \* WorkflowRunResult once the runner has returned
  resp,       \* last response of the entry point
  steps0,     \* history: step log as loaded when the invocation started
  base0,      \* history: persisted bundle loaded by the invocation
  reg0,       \* history: registry entry right after the entry point's upsert
  invoked,    \* history: indices of the executors invoked, in order
  answer,     \* history: the stage last awaited and what its call produced
  requests,   \* history: number of requests received so far
  credentials, \* whether search and LLM credentials are set in process.env
  order,      \* iteration order of the registry Map: task ids as inserted
  call,       \* history: the last call made on the registry by a client
  ret,        \* history: what that call returned
  written,    \* history: per task, the payload keys written and by whom
  calls       \* history: number of registry writes and clock steps so far

vars == <<registry, now, pc, body, taskId, options, resumed, resumeIndex,
          index, steps, bundle, startedAt, result, resp, steps0, base0,
          reg0, invoked, answer, requests, credentials, order, call, ret,
          written, calls>>

(* ------------------------------ bounds --------------------------------- *)
MaxRequests == 2
MaxCalls == 3
MaxTitles == 1
MaxRequired == 2
MaxPad == 2
MaxChars == 201
MaxTasks == 11

(* --------------------------- representation ---------------------------- *)
Undef == "undefined"
NoTime == -1
NoRec == [undef |-> TRUE]

Spread(a, b) ==
  [k \in (DOMAIN a) \cup (DOMAIN b) |-> IF k \in DOMAIN b THEN b[k] ELSE a[k]]

Or(a, b) == IF a = "" \/ a = Undef THEN b ELSE a

Min(a, b) == IF a < b THEN a ELSE b
Max(a, b) == IF a > b THEN a ELSE b

Range(f) == {f[i] : i \in DOMAIN f}

\* the object {} and `x || {}`
EmptyObj == [k \in {} |-> 0]
Obj(x) == IF x = NoRec THEN EmptyObj ELSE x

\* obj[key] of an object that may lack the key
Get(obj, key, undefined) == IF key \in DOMAIN obj THEN obj[key] ELSE undefined

\* JavaScript numbers other than the integers: the infinities, NaN and the
\* numbers k + 1/2 are coded as integers far from the integers in use
Infinity == 2000000000
NaN == 2000000001
HalfBase == 1000000000
Half(k) == HalfBase + k
IsHalf(x) == x > HalfBase - 100000 /\ x < HalfBase + 100000

isFinite(x) == x \notin {NaN, Infinity, -Infinity}
\* Math.round rounds k + 1/2 up, Math.floor rounds it down
MathRound(x) == IF IsHalf(x) THEN x - HalfBase + 1 ELSE x
MathFloor(x) == IF IsHalf(x) THEN x - HalfBase ELSE x

TaskIds == {"t1", "t2"}
GeneratedIds == {"t2"}

(* ---------------------------- task registry ---------------------------- *)
MAX_AGE_MS == 24 * 60 * 60 * 1000

\* a purge that also drops the entries that are exactly 24h old
cleanupExpired_atAge(store, t) ==
  [id \in DOMAIN store |->
     IF store[id] # NoRec /\ t - store[id].updatedAt >= MAX_AGE_MS
     THEN NoRec ELSE store[id]]

cleanupExpired(store, t) ==
  [id \in DOMAIN store |->
     IF store[id] # NoRec /\ t - store[id].updatedAt > MAX_AGE_MS
     THEN NoRec ELSE store[id]]

\* a clampProgress that only rounds
clampProgress_unclamped(progress) ==
  IF ~isFinite(progress) THEN 0 ELSE MathRound(progress)

clampProgress(progress) ==
  IF ~isFinite(progress) THEN 0
  ELSE Max(0, Min(100, MathRound(progress)))

getTaskRegistry(store, t) == cleanupExpired(store, t)

\* the iteration order of the Map after a call at time t that turned store
\* into next: delete removes a key, set of a new key appends it (a call
\* inserts at most one key)
MapOrder(ord, store, next, t) ==
  LET cleaned == cleanupExpired(store, t)
      kept == SelectSeq(ord, LAMBDA i : cleaned[i] # NoRec)
      added == {i \in DOMAIN next : next[i] # NoRec /\ cleaned[i] = NoRec}
  IN kept \o (IF added = {} THEN << >> ELSE <<CHOOSE i \in added : TRUE>>)

\* a creation that starts every task as RUNNING
newSnapshot_alwaysRunning(id, input, t) ==
  [taskId |-> id,
   kind |-> input.kind,
   status |-> "RUNNING",
   progress |-> clampProgress(IF "progress" \in DOMAIN input
                              THEN input.progress ELSE 0),
   projectId |-> Get(input, "projectId", Undef),
   provider |-> Get(input, "provider", Undef),
   traceId |-> Get(input, "traceId", Undef),
   idempotencyKey |-> Get(input, "idempotencyKey", Undef),
   error |-> NoRec,
   payload |-> Get(input, "payload", NoRec),
   startedAt |-> t,
   updatedAt |-> t,
   endedAt |-> NoTime]

\* lines 101-114: the snapshot upsertTask creates for an absent taskId
newSnapshot(id, input, t) ==
  [taskId |-> id,
   kind |-> input.kind,
   status |-> Or(Get(input, "status", Undef), "RUNNING"),
   progress |-> clampProgress(IF "progress" \in DOMAIN input
                              THEN input.progress ELSE 0),
   projectId |-> Get(input, "projectId", Undef),
   provider |-> Get(input, "provider", Undef),
   traceId |-> Get(input, "traceId", Undef),
   idempotencyKey |-> Get(input, "idempotencyKey", Undef),
   error |-> NoRec,
   payload |-> Get(input, "payload", NoRec),
   startedAt |-> t,
   updatedAt |-> t,
   endedAt |-> NoTime]

\* an upsertTask whose merge lets the stored payload keys win
upsertTask_firstWins(store, id, input, t) ==
  LET s == getTaskRegistry(store, t)
      current == s[id]
  IN IF current = NoRec
     THEN [s EXCEPT ![id] =
             newSnapshot(id, input, t)]
     ELSE [s EXCEPT ![id] =
             Spread(Spread(current, input),
                    [progress |-> IF "progress" \in DOMAIN input
                                  THEN clampProgress(input.progress)
                                  ELSE current.progress,
                     payload |-> Spread(Obj(Get(input, "payload", NoRec)),
                                        Obj(current.payload)),
                     updatedAt |-> t])]

upsertTask(store, id, input, t) ==
  LET s == getTaskRegistry(store, t)
      current == s[id]
      next ==
        IF current # NoRec
        THEN Spread(Spread(current, input),
                    [progress |-> IF "progress" \in DOMAIN input
                                  THEN clampProgress(input.progress)
                                  ELSE current.progress,
                     payload |-> Spread(Obj(current.payload),
                                        Obj(Get(input, "payload", NoRec))),
                     updatedAt |-> t])
        ELSE newSnapshot(id, input, t)
  IN [s EXCEPT ![id] = next]

\* a patchTask that replaces the payload by the one it is given
patchTask_replaces(store, id, patch, t) ==
  LET s == getTaskRegistry(store, t)
      current == s[id]
  IN IF current = NoRec THEN s
     ELSE [s EXCEPT ![id] =
             Spread(Spread(current, patch),
                    [progress |-> IF "progress" \in DOMAIN patch
                                  THEN clampProgress(patch.progress)
                                  ELSE current.progress,
                     payload |-> Get(patch, "payload", current.payload),
                     updatedAt |-> t])]

patchTask(store, id, patch, t) ==
  LET s == getTaskRegistry(store, t)
      current == s[id]
  IN IF current = NoRec THEN s
     ELSE [s EXCEPT ![id] =
             Spread(Spread(current, patch),
                    [progress |-> IF "progress" \in DOMAIN patch
                                  THEN clampProgress(patch.progress)
                                  ELSE current.progress,
                     payload |-> IF Get(patch, "payload", NoRec) # NoRec
                                 THEN Spread(Obj(current.payload), patch.payload)
                                 ELSE current.payload,
                     updatedAt |-> t])]

\* a completeTask that leaves the status to its patch
completeTask_noStatus(store, id, patch, t) ==
  patchTask(store, id,
            Spread(patch, [progress |-> IF "progress" \in DOMAIN patch
                                        THEN patch.progress ELSE 100,
                           endedAt |-> t]),
            t)

completeTask(store, id, patch, t) ==
  patchTask(store, id,
            Spread(patch, [status |-> "COMPLETED",
                           progress |-> IF "progress" \in DOMAIN patch
                                        THEN patch.progress ELSE 100,
                           endedAt |-> t]),
            t)

\* a failure patch without the end stamp
failPatch_noEndedAt(error, patch, t) ==
  Spread(patch, [status |-> "FAILED", error |-> error])

\* lines 154-159: the patch failTask hands to patchTask
failPatch(error, patch, t) ==
  Spread(patch, [status |-> "FAILED", error |-> error, endedAt |-> t])

\* a failTask that registers the failure of a task the registry does not hold
failTask_creates(store, id, error, patch, t) ==
  IF getTaskRegistry(store, t)[id] = NoRec
  THEN patchTask(upsertTask(store, id, [kind |-> "workflow"], t), id,
                 failPatch(error, patch, t), t)
  ELSE patchTask(store, id, failPatch(error, patch, t), t)

failTask(store, id, error, patch, t) ==
  patchTask(store, id, failPatch(error, patch, t), t)

getTask(store, id, t) == getTaskRegistry(store, t)[id]

\* a value that counts as true in a condition
Truthy(x) == x # "" /\ x # Undef

\* a listing in the order of the Map
sortByUpdatedAt_asInserted(tasks) == tasks

\* Array.prototype.sort with the comparator of line 185: descending by
\* updatedAt, entries of equal updatedAt keep their order
RECURSIVE sortByUpdatedAt(_)
sortByUpdatedAt(tasks) ==
  IF tasks = << >> THEN << >>
  ELSE LET n == Len(tasks)
           rest == sortByUpdatedAt(SubSeq(tasks, 1, n - 1))
           k == Cardinality({i \in 1..Len(rest) :
                               rest[i].updatedAt >= tasks[n].updatedAt})
       IN SubSeq(rest, 1, k) \o <<tasks[n]>> \o SubSeq(rest, k + 1, Len(rest))

\* Array.prototype.slice(0, end): a NaN end counts as 0
slice(tasks, end) ==
  IF end = NaN THEN << >>
  ELSE SubSeq(tasks, 1, Min(Max(end, 0), Len(tasks)))

\* input.status is [one |-> s] for a single status and [array |-> <<..>>]
\* for an array of them; ord is the iteration order of the Map
listTasks(store, ord, input, t) ==
  LET s == getTaskRegistry(store, t)
      ids == SelectSeq(ord, LAMBDA i : s[i] # NoRec)
      all == [n \in 1..Len(ids) |-> s[ids[n]]]
      statusSet == IF "one" \in DOMAIN input.status THEN {input.status.one}
                   ELSE Range(input.status.array)
      filtered ==
        SelectSeq(all, LAMBDA task :
          /\ ~(Truthy(Get(input, "kind", Undef)) /\ task.kind # input.kind)
          /\ ~(Truthy(Get(input, "projectId", Undef))
                /\ task.projectId # input.projectId)
          /\ ~("status" \in DOMAIN input /\ task.status \notin statusSet))
      sorted == sortByUpdatedAt(filtered)
      \* Math.max(1, NaN) is NaN
      limit == IF input.limit = NaN THEN NaN
               ELSE Max(1, MathFloor(input.limit))
  IN IF "limit" \in DOMAIN input THEN slice(sorted, limit) ELSE sorted

\* what patchTask, completeTask and failTask return when they turn store into
\* next: undefined without a current entry (line 123), else the stored snapshot
patchTaskReturns(store, id, next, t) ==
  IF getTaskRegistry(store, t)[id] = NoRec THEN NoRec ELSE next[id]

(* --------------------------- workflow verifier ------------------------- *)
\* a check is [key, passed]: key is the dotted key split at its dots, and the
\* message text is a function of passed
buildResult(checks) ==
  [ok |-> \A i \in 1..Len(checks) : checks[i].passed, checks |-> checks]

\* sources: number of sources; summary: trimmed summary; titles: number of
\* recommended titles
verifyResearchResult(sources, summary, titles) ==
  buildResult(<<[key |-> <<"research", "sources", "min">>, passed |-> sources > 0],
                [key |-> <<"research", "insight", "summary">>, passed |-> summary # ""],
                [key |-> <<"research", "insight", "titles">>, passed |-> titles > 0]>>)

\* a length gate that wants more than 200 characters
verifyDraftResult_over200(trimmedLen) ==
  buildResult(<<[key |-> <<"draft", "content", "non_empty">>, passed |-> trimmedLen > 0],
                [key |-> <<"draft", "content", "min_chars">>, passed |-> trimmedLen > 200]>>)

\* trimmedLen: length of the content after trim()
verifyDraftResult(trimmedLen) ==
  buildResult(<<[key |-> <<"draft", "content", "non_empty">>, passed |-> trimmedLen > 0],
                [key |-> <<"draft", "content", "min_chars">>, passed |-> trimmedLen >= 200]>>)

\* checks for the first required platform only
platformChecks_firstOnly(variants, requiredPlatforms) ==
  IF requiredPlatforms = << >> THEN << >>
  ELSE LET platform == Head(requiredPlatforms)
           hasRow == platform \in DOMAIN variants
           hasBody == hasRow /\ variants[platform].body # ""
           hasTitle == hasRow /\ variants[platform].titleCandidates > 0
       IN <<[key |-> <<"rewrite", platform, "body">>, passed |-> hasBody],
            [key |-> <<"rewrite", platform, "title">>, passed |-> hasTitle]>>

RECURSIVE platformChecks(_, _)
platformChecks(variants, requiredPlatforms) ==
  IF requiredPlatforms = << >> THEN << >>
  ELSE LET platform == Head(requiredPlatforms)
           hasRow == platform \in DOMAIN variants
           hasBody == hasRow /\ variants[platform].body # ""
           hasTitle == hasRow /\ variants[platform].titleCandidates > 0
       IN <<[key |-> <<"rewrite", platform, "body">>, passed |-> hasBody],
            [key |-> <<"rewrite", platform, "title">>, passed |-> hasTitle]>>
          \o platformChecks(variants, Tail(requiredPlatforms))

\* variants: platform -> [body (trimmed), titleCandidates (count)]
verifyRewriteResult(variants, requiredPlatforms) ==
  buildResult(<<[key |-> <<"rewrite", "variants", "min">>,
                 passed |-> DOMAIN variants # {}]>>
              \o platformChecks(variants, requiredPlatforms))

verifyAssetResult(imageUrl, provider) ==
  buildResult(<<[key |-> <<"asset", "image", "url">>, passed |-> imageUrl # ""],
                [key |-> <<"asset", "provider">>, passed |-> provider # ""]>>)

verifyPublishResult(postId, editUrl, status) ==
  buildResult(<<[key |-> <<"publish", "post_id">>, passed |-> postId # ""],
                [key |-> <<"publish", "status">>, passed |-> status # ""],
                [key |-> <<"publish", "edit_url">>, passed |-> editUrl # ""]>>)

(* ----------------------------- workflow runner ------------------------- *)
\* indices are 1-based here: index i stands for the source's index i-1
STEP_ORDER == <<"research", "draft", "rewrite", "assets", "publish", "analytics">>
DEFAULT_PLATFORMS == <<"WECHAT", "XIAOHONGSHU", "WEIBO", "BILIBILI">>

StepIdx == 1..Len(STEP_ORDER)

PendingStep(step) ==
  [step |-> step, status |-> "PENDING", retryCount |-> 0,
   startedAt |-> NoTime, endedAt |-> NoTime, durationMs |-> NoTime,
   provider |-> Undef, errorCode |-> Undef, errorMessage |-> << >>,
   validation |-> NoRec]

initSteps(from) ==
  LET base == [i \in StepIdx |-> PendingStep(STEP_ORDER[i])]
  IN IF Len(from) = 0 THEN base
     ELSE [i \in StepIdx |->
             LET js == {j \in 1..Len(from) : from[j].step = STEP_ORDER[i]}
             IN IF js = {} THEN base[i]
                ELSE from[CHOOSE j \in js : \A k \in js : k <= j]]

\* findIndex: least index satisfying the predicate, 0 (source: -1) if none
FindIndex(log, statuses) ==
  LET hit == {i \in 1..Len(log) : log[i].status \in statuses}
  IN IF hit = {} THEN 0 ELSE CHOOSE i \in hit : \A j \in hit : i <= j

findResumeIndex_completed(log) ==
  LET failed == FindIndex(log, {"COMPLETED"})
      pending == FindIndex(log, {"PENDING", "RUNNING"})
  IN IF failed >= 1 THEN failed
     ELSE IF pending >= 1 THEN pending
     ELSE 1

findResumeIndex(log) ==
  LET failed == FindIndex(log, {"FAILED"})
      pending == FindIndex(log, {"PENDING", "RUNNING"})
  IN IF failed >= 1 THEN failed
     ELSE IF pending >= 1 THEN pending
     ELSE 1

aggregateFinalOutput(b) ==
  [summary |-> IF b.research # NoRec /\ b.research.insight.summary # ""
               THEN b.research.insight.summary ELSE b.topic,
   titleCandidates |-> IF b.research # NoRec
                       THEN b.research.insight.recommendedTitles ELSE 0,
   platformCount |-> IF b.rewrite # NoRec
                     THEN Cardinality(DOMAIN b.rewrite.variants) ELSE 0,
   hasAsset |-> b.assets # NoRec /\ b.assets.imageUrl # "",
   publishStatus |-> IF b.publish # NoRec
                     THEN Or(b.publish.status, "not_published")
                     ELSE "not_published"]

\* a loader that makes a resumable state of any workflow task
buildWorkflowFromTask_anyPayload(store, id, t) ==
  LET task == getTask(store, id, t)
  IN IF task = NoRec \/ task.kind # "workflow" THEN NoRec
     ELSE [bundle |-> IF "bundle" \in DOMAIN task.payload
                      THEN task.payload.bundle
                      ELSE [projectId |-> "", topic |-> task.payload.topic,
                            researchTool |-> task.payload.researchTool,
                            timeWindow |-> "7d", tone |-> "professional",
                            audience |-> "creators", length |-> "medium",
                            platforms |-> DEFAULT_PLATFORMS,
                            research |-> NoRec, draft |-> NoRec,
                            rewrite |-> NoRec, assets |-> NoRec,
                            publish |-> NoRec, analytics |-> NoRec,
                            finalOutput |-> NoRec],
           steps |-> initSteps(IF "steps" \in DOMAIN task.payload
                               THEN task.payload.steps ELSE << >>)]

buildWorkflowFromTask(store, id, t) ==
  LET task == getTask(store, id, t)
  IN IF task = NoRec \/ task.kind # "workflow" THEN NoRec
     ELSE IF "bundle" \notin DOMAIN task.payload THEN NoRec
     ELSE [bundle |-> task.payload.bundle,
           steps |-> initSteps(IF "steps" \in DOMAIN task.payload
                               THEN task.payload.steps ELSE << >>)]

\* lines 885-906: the persisted bundle (or a fresh one) overlaid with the
\* options of this request
BaseBundle(o, persisted) ==
  IF persisted # NoRec THEN persisted.bundle
  ELSE [projectId |-> o.projectId,
        topic |-> o.topic,
        researchTool |-> Or(o.researchTool, "WEB_SEARCH"),
        timeWindow |-> Or(o.timeWindow, "7d"),
        tone |-> Or(o.tone, "professional"),
        audience |-> Or(o.audience, "creators"),   \* the source's default, in ASCII
        length |-> Or(o.length, "medium"),
        platforms |-> IF Len(o.platforms) > 0 THEN o.platforms
                      ELSE DEFAULT_PLATFORMS,
        research |-> NoRec, draft |-> NoRec, rewrite |-> NoRec,
        assets |-> NoRec, publish |-> NoRec, analytics |-> NoRec,
        finalOutput |-> NoRec]

EffectiveBundle(o, baseBundle) ==
  [baseBundle EXCEPT
     !.projectId = Or(o.projectId, baseBundle.projectId),
     !.topic = Or(o.topic, baseBundle.topic),
     !.researchTool = Or(o.researchTool, Or(baseBundle.researchTool, "WEB_SEARCH")),
     !.timeWindow = Or(o.timeWindow, baseBundle.timeWindow),
     !.tone = Or(o.tone, baseBundle.tone),
     !.audience = Or(o.audience, baseBundle.audience),
     !.length = Or(o.length, baseBundle.length),
     !.platforms = IF Len(o.platforms) > 0 THEN o.platforms
                   ELSE baseBundle.platforms]

\* a loop that skips every COMPLETED step
ShouldSkip_completed(i, rIndex, stepState) == stepState.status = "COMPLETED"

\* line 917
ShouldSkip(i, rIndex, stepState) == i < rIndex /\ stepState.status = "COMPLETED"

\* lines 921-927
MarkRunning_keepStart(stepState, t) ==
  [stepState EXCEPT !.status = "RUNNING",
                    !.startedAt = IF stepState.startedAt = NoTime THEN t
                                  ELSE stepState.startedAt,
                    !.endedAt = NoTime, !.durationMs = NoTime,
                    !.errorCode = Undef, !.errorMessage = << >>]

MarkRunning(stepState, t) ==
  [stepState EXCEPT !.status = "RUNNING", !.startedAt = t,
                    !.endedAt = NoTime, !.durationMs = NoTime,
                    !.errorCode = Undef, !.errorMessage = << >>]

\* lines 962-967
MarkCompleted_stillRunning(stepState, provider, validation, started, t) ==
  [stepState EXCEPT !.provider = provider, !.validation = validation,
                    !.endedAt = t, !.durationMs = t - started]

MarkCompleted(stepState, provider, validation, started, t) ==
  [stepState EXCEPT !.status = "COMPLETED", !.provider = provider,
                    !.validation = validation,
                    !.endedAt = t, !.durationMs = t - started]

\* lines 970-977: message is the thrown message split at its colons
MarkFailed_pending(stepState, message, started, t) ==
  LET code == Head(message)
      rest == Tail(message)
  IN [stepState EXCEPT
        !.status = "PENDING",
        !.errorCode = IF code = "" THEN "UNKNOWN_ERROR" ELSE code,
        !.errorMessage = IF rest = << >> \/ rest = <<"">> THEN message ELSE rest,
        !.endedAt = t, !.durationMs = t - started]

MarkFailed(stepState, message, started, t) ==
  LET code == Head(message)
      rest == Tail(message)
  IN [stepState EXCEPT
        !.status = "FAILED",
        !.errorCode = IF code = "" THEN "UNKNOWN_ERROR" ELSE code,
        !.errorMessage = IF rest = << >> \/ rest = <<"">> THEN message ELSE rest,
        !.endedAt = t, !.durationMs = t - started]

(* ----------------------------- stage executors ------------------------- *)
\* What an outbound call can produce.  fail is the message of the error the
\* executor throws before it looks at any data (non-2xx answer, ok=false
\* envelope, "error" event, rejected or aborted fetch), split at its colons;
\* << >> when the call answers with data.  "This operation was aborted" is
\* the message of the AbortError with which the fetch of fetchWithTimeout
\* rejects when its timer fires; like the message of a network failure it has
\* no colon.
Failures == {<<"PROVIDER_UNAVAILABLE", "request failed">>,
             <<"This operation was aborted">>}

GoodVariants(S) ==
  [p \in S |-> [body |-> "text", titleCandidates |-> 1, hashtags |-> 1]]

VariantMaps(b) ==
  {GoodVariants(S) : S \in {{}, {"WECHAT"}, Range(b.platforms),
                            Range(DEFAULT_PLATFORMS)}}
  \cup {[p \in Range(b.platforms) |->
           [body |-> IF p = b.platforms[1] THEN "" ELSE "text",
            titleCandidates |-> 1, hashtags |-> 0]]}

\* the outcomes of the outbound call of each stage
ResearchOutcomes(b) ==
  {[fail |-> f, sources |-> 0, summary |-> "", titles |-> 0, provider |-> "unknown"]
     : f \in Failures \cup {<<"VALIDATION_ERROR", "query is required">>}}
  \cup (IF b.topic = "" THEN {}    \* /api/research/start answers 400 to an empty query
        ELSE [fail : {<< >>}, sources : {0, 1}, summary : {"", "insight"},
              titles : {0, 1}, provider : {"tavily"}])

DraftOutcomes ==
  {[fail |-> f, len |-> 0, warnings |-> 0] : f \in Failures}
  \cup {[fail |-> << >>, len |-> 0, warnings |-> 0],
        [fail |-> << >>, len |-> 199, warnings |-> 1],
        [fail |-> << >>, len |-> 200, warnings |-> 0]}

RewriteOutcomes(b) ==
  {[fail |-> f, variants |-> << >>] : f \in Failures}
  \cup {[fail |-> << >>, variants |-> v] : v \in VariantMaps(b)}

AssetOutcomes ==
  {[fail |-> f, imageUrl |-> "", provider |-> ""] : f \in Failures}
  \cup [fail : {<< >>}, imageUrl : {"", "img"}, provider : {"", "openai"}]

PublishOutcomes ==
  {[fail |-> f, postId |-> "", editUrl |-> "", status |-> "", mode |-> ""]
     : f \in Failures \cup {<<"WP_AUTH_FAILED", "bad credentials">>}}
  \cup {[fail |-> << >>, postId |-> "7", editUrl |-> "edit", status |-> "draft",
         mode |-> "live"],
        [fail |-> << >>, postId |-> "", editUrl |-> "edit", status |-> "draft",
         mode |-> "live"]}

AnalyticsOutcomes == {[fail |-> f] : f \in Failures \cup {<< >>}}

\* an executor either throws (thrown # << >>, bundle untouched) or returns
Throw(message, b) ==
  [thrown |-> message, bundle |-> b, provider |-> Undef, validation |-> NoRec]

Return(b, provider, validation) ==
  [thrown |-> << >>, bundle |-> b, provider |-> provider, validation |-> validation]

runResearch(o, b, out) ==
  IF out.fail # << >> THEN Throw(out.fail, b)
  ELSE LET validation == verifyResearchResult(out.sources, out.summary, out.titles)
       IN IF ~validation.ok
          THEN Throw(<<"VALIDATION_ERROR", "research result incomplete">>, b)
          ELSE Return([b EXCEPT !.research =
                         [provider |-> out.provider,
                          sources |-> out.sources,
                          insight |-> [summary |-> out.summary,
                                       recommendedTitles |-> out.titles]]],
                      out.provider, validation)

\* an executor that takes whatever the endpoint sends
runDraft_unverified(o, b, out) ==
  IF out.fail # << >> THEN Throw(out.fail, b)
  ELSE Return([b EXCEPT !.draft = [content |-> out.len,
                                   warnings |-> out.warnings]],
              IF out.warnings > 0 THEN "fallback" ELSE "llm",
              verifyDraftResult(out.len))

runDraft(o, b, out) ==
  IF out.fail # << >> THEN Throw(out.fail, b)
  ELSE LET validation == verifyDraftResult(out.len)
       IN IF ~validation.ok
          THEN Throw(<<"VALIDATION_ERROR", "draft result incomplete">>, b)
          ELSE Return([b EXCEPT !.draft = [content |-> out.len,
                                           warnings |-> out.warnings]],
                      IF out.warnings > 0 THEN "fallback" ELSE "llm", validation)

runRewrite(o, b, out) ==
  IF out.fail # << >> THEN Throw(out.fail, b)
  ELSE LET validation == verifyRewriteResult(out.variants, b.platforms)
       IN IF ~validation.ok
          THEN Throw(<<"VALIDATION_ERROR", "rewrite result incomplete">>, b)
          ELSE Return([b EXCEPT !.rewrite = [variants |-> out.variants]],
                      "llm", validation)

\* a skip that writes the verifier's stand-in URL into the bundle
runAssets_sentinelUrl(o, b, out) ==
  IF ~o.generateAsset
  THEN Return([b EXCEPT !.assets = [imageUrl |-> "skipped://asset",
                                    provider |-> "skipped",
                                    note |-> "asset step skipped by workflow option"]],
              "skipped", verifyAssetResult("skipped://asset", "skipped"))
  ELSE IF out.fail # << >> THEN Throw(out.fail, b)
  ELSE LET validation == verifyAssetResult(out.imageUrl, out.provider)
       IN IF ~validation.ok
          THEN Throw(<<"VALIDATION_ERROR", "asset result incomplete">>, b)
          ELSE Return([b EXCEPT !.assets = [imageUrl |-> out.imageUrl,
                                            provider |-> out.provider,
                                            note |-> Undef]],
                      Or(out.provider, "image-api"), validation)

runAssets(o, b, out) ==
  IF ~o.generateAsset
  THEN Return([b EXCEPT !.assets = [imageUrl |-> "", provider |-> "skipped",
                                    note |-> "asset step skipped by workflow option"]],
              "skipped", verifyAssetResult("skipped://asset", "skipped"))
  ELSE IF out.fail # << >> THEN Throw(out.fail, b)
  ELSE LET validation == verifyAssetResult(out.imageUrl, out.provider)
       IN IF ~validation.ok
          THEN Throw(<<"VALIDATION_ERROR", "asset result incomplete">>, b)
          ELSE Return([b EXCEPT !.assets = [imageUrl |-> out.imageUrl,
                                            provider |-> out.provider,
                                            note |-> Undef]],
                      Or(out.provider, "image-api"), validation)

runPublish(o, b, out) ==
  IF ~o.publishToWordpress
  THEN Return([b EXCEPT !.publish = [mode |-> "skipped", postId |-> Undef,
                                     editUrl |-> Undef, status |-> "skipped",
                                     message |-> "publish step skipped by workflow option"]],
              "skipped", verifyPublishResult("skipped", "skipped://publish", "skipped"))
  ELSE IF out.fail # << >> THEN Throw(out.fail, b)
  ELSE LET validation == verifyPublishResult(out.postId, out.editUrl, out.status)
       IN IF ~validation.ok
          THEN Throw(<<"VALIDATION_ERROR", "publish result incomplete">>, b)
          ELSE Return([b EXCEPT !.publish = [mode |-> Or(out.mode, Undef),
                                             postId |-> out.postId,
                                             editUrl |-> Or(out.editUrl, Undef),
                                             status |-> Or(out.status, Undef),
                                             message |-> Undef]],
                      IF out.mode = "mock" THEN "wordpress-mock" ELSE "wordpress-live",
                      validation)

runAnalytics(o, b, out) ==
  IF out.fail # << >> THEN Throw(out.fail, b)
  ELSE Return([b EXCEPT !.analytics = [window |-> "7d"]], "local-summary",
              buildResult(<<[key |-> <<"analytics", "summary", "exists">>,
                             passed |-> TRUE]>>))

(* --------------------- stage endpoints without credentials ------------- *)
\* The paths the endpoints /api/research/start, /api/draft/generate,
\* /api/rewrite/generate and /api/analytics/summary take when neither a
\* search key nor an LLM key is configured.  Strings that only matter by
\* their length are numbers (JS string lengths); the legacy backend is not
\* reachable, so retrieveLegacyMemory yields null.
hasSearchConfig == credentials
hasChatModelConfig == credentials

StrLen(s) ==
  CASE s = "" -> 0
    [] s \in {"ai", "ip", "p1", "p2", "t1", "t2"} -> 2
    [] s = "creators" -> 3     \* the three characters of the default audience
    [] s = "devs" -> 4
    [] s \in {"growth", "draft-"} -> 6
    [] s = "media team" -> 10
    [] s = "workflow-generated" -> 18
    \* the summary of buildFallbackInsight for a query and no source
    [] s \in {"summary of ai", "summary of ip"} -> 54
    [] s = "summary of growth" -> 58

Digits(n) == IF n < 10 THEN 1 ELSE IF n < 100 THEN 2 ELSE IF n < 1000 THEN 3 ELSE 4

\* a streamed event is written as one line holding its JSON text
encodeSSE(evt) == [json |-> TRUE, value |-> evt]

\* task-registry.ts lines 344-352: the lines that parse as a JSON object
parseSseLines(raw) ==
  LET kept == SelectSeq(raw, LAMBDA line : line.json)
  IN [i \in 1..Len(kept) |-> kept[i].value]

Stream(events) == [i \in 1..Len(events) |-> encodeSSE(events[i])]

\* what fetch resolves with: the HTTP status class, the error of a JSON error
\* envelope, the lines of a streamed body
ErrorEnvelope(code, message) ==
  [ok |-> FALSE, error |-> [code |-> code, message |-> message], lines |-> << >>]

Streamed(events) == [ok |-> TRUE, error |-> NoRec, lines |-> Stream(events)]

JsonOk == [ok |-> TRUE, error |-> NoRec, lines |-> << >>]

extractApiError(response) ==
  [code |-> IF response.error # NoRec
            THEN Or(response.error.code, "PROVIDER_UNAVAILABLE")
            ELSE "PROVIDER_UNAVAILABLE",
   message |-> IF response.error # NoRec
               THEN Or(response.error.message, "request failed")
               ELSE "request failed"]

\* part_003 lines 106-128: the summary names the query and the number of
\* sources; five titles
buildFallbackInsight(query, sources) ==
  [summary |-> CASE query = "ai" -> "summary of ai"
                 [] query = "ip" -> "summary of ip"
                 [] query = "growth" -> "summary of growth",
   recommendedTitles |-> 5]

buildSyntheticSource(query) ==
  [type |-> "source", provider |-> "none", publisher |-> "contentpilot-fallback"]

\* the endpoint drops its synthetic source
researchStart_noSynthetic(query, legacy) ==
  IF query = ""
  THEN ErrorEnvelope("VALIDATION_ERROR", "query is required")
  ELSE LET insight == buildFallbackInsight(query, 0)
       IN Streamed(<<[type |-> "meta"], [type |-> "progress"]>>
                   \o (IF legacy = "unreachable"
                       THEN <<[type |-> "provider", provider |-> "none"]>>
                       ELSE << >>)
                   \o <<[type |-> "progress"], [type |-> "progress"]>>
                   \o <<[type |-> "validator"],
                        [type |-> "insight", summary |-> insight.summary,
                         recommendedTitles |-> insight.recommendedTitles],
                        [type |-> "progress"]>>)

\* part_003 lines 141-445, without search or LLM configuration.  legacy is
\* "off" when the legacy query engine is not enabled and "unreachable" when
\* it is enabled and its backend does not answer.
researchStart(query, legacy) ==
  IF query = ""
  THEN ErrorEnvelope("VALIDATION_ERROR", "query is required")
  ELSE LET sources == 0      \* no provider ran
           insight == buildFallbackInsight(query, sources)
           synthetic == IF sources = 0 THEN <<buildSyntheticSource(query)>>
                        ELSE << >>
       IN Streamed(<<[type |-> "meta"], [type |-> "progress"]>>
                   \o (IF legacy = "unreachable"
                       THEN <<[type |-> "provider", provider |-> "none"]>>
                       ELSE << >>)
                   \o <<[type |-> "progress"], [type |-> "progress"]>>
                   \o synthetic
                   \o <<[type |-> "validator"],
                        [type |-> "insight", summary |-> insight.summary,
                         recommendedTitles |-> insight.recommendedTitles],
                        [type |-> "progress"]>>)

\* part_002 lines 20-36
getLengthRange(length) ==
  CASE length = "short" -> [min |-> 500, max |-> 1000]
    [] length = "long" -> [min |-> 3000, max |-> 4500]
    [] OTHER -> [min |-> 1500, max |-> 2500]

getLengthTargetChars(length) ==
  CASE length = "short" -> 900
    [] length = "long" -> 3600
    [] OTHER -> 2000

\* length of getToneInstruction(tone)
ToneLen(tone) ==
  CASE tone = "analytical" -> 19
    [] tone = "tutorial" -> 20
    [] OTHER -> 17

\* part_002 lines 111-116: paragraphs are appended until the target is met
RECURSIVE extendDraft(_, _, _, _)
extendDraft(len, targetChars, i, titleLen) ==
  IF len >= targetChars THEN len
  ELSE extendDraft(len + 51 + Digits(i) + titleLen, targetChars, i + 1, titleLen)

\* part_002 lines 69-117: the length of the fallback draft
buildFallbackDraft(topic, summaryLen, minWords, tone, audience, length) ==
  LET titleLen == IF topic = "" THEN 4 ELSE StrLen(topic)
      targetChars == Max(getLengthTargetChars(length), (minWords * 17) \div 10)
      base == 381 + titleLen + (IF summaryLen = 0 THEN 24 ELSE summaryLen)
              + StrLen(audience) + ToneLen(tone) + Digits(minWords)
  IN extendDraft(base, targetChars, 1, titleLen)

\* part_002 lines 253-271: a draft the verifier rejects is padded
RECURSIVE padDraft(_)
padDraft(len) == IF len >= 240 THEN len ELSE padDraft(len + 58)

\* part_002 lines 293-302: the content goes out in chunks of 96 characters
contentChunks(len) ==
  LET chunkSize == 96
      chunks == (len + chunkSize - 1) \div chunkSize
  IN [n \in 1..(2 * chunks) |->
        IF n % 2 = 1
        THEN [type |-> "content",
              text |-> Min(chunkSize, len - chunkSize * (n \div 2))]
        ELSE [type |-> "progress"]]

\* part_002 lines 149-431, without LLM configuration and with
\* USE_LEGACY_CONTENT_WORKFLOW unset
draftGenerate(req) ==
  LET topic == Or(req.topic, req.projectId)
      tone == Or(req.tone, "professional")
      audience == Or(req.audience, "media team")
      length == Or(req.length, "medium")
      content == buildFallbackDraft(topic, StrLen(req.researchSummary),
                                    getLengthRange(length).min, tone, audience,
                                    length)
      normalized == IF verifyDraftResult(content).ok THEN content
                    ELSE padDraft(content + 2 + 361)
  IN IF topic = ""
     THEN ErrorEnvelope("VALIDATION_ERROR", "topic is required")
     ELSE IF ~verifyDraftResult(normalized).ok
     THEN Streamed(<<[type |-> "meta"], [type |-> "progress"],
                     [type |-> "validator"],
                     [type |-> "error", code |-> "PROVIDER_UNAVAILABLE",
                      message |-> "draft_validation_failed"]>>)
     ELSE Streamed(<<[type |-> "meta"], [type |-> "progress"],
                     [type |-> "validator"], [type |-> "progress"]>>
                   \o contentChunks(normalized)
                   \o <<[type |-> "progress"]>>)

\* part_004 lines 22-56
platformConfigs ==
  [WECHAT |-> [maxLength |-> 20000, hashtags |-> FALSE],
   XIAOHONGSHU |-> [maxLength |-> 1200, hashtags |-> TRUE],
   WEIBO |-> [maxLength |-> 800, hashtags |-> TRUE],
   BILIBILI |-> [maxLength |-> 4000, hashtags |-> TRUE]]

\* part_004 lines 79-86: the body is the first maxLength characters
buildFallbackVariant(platform, contentLen) ==
  [titleCandidates |-> 1,
   body |-> IF Min(contentLen, platformConfigs[platform].maxLength) > 0
            THEN "text" ELSE "",
   hashtags |-> IF platformConfigs[platform].hashtags THEN 3 ELSE 0]

RECURSIVE variantEvents(_, _)
variantEvents(platforms, contentLen) ==
  IF platforms = << >> THEN << >>
  ELSE LET platform == Head(platforms)
       IN (IF platform \notin DOMAIN platformConfigs
           THEN <<[type |-> "error", platform |-> platform,
                   message |-> "Unsupported platform"]>>
           ELSE LET variant == buildFallbackVariant(platform, contentLen)
                IN <<[type |-> "variant", platform |-> platform,
                      titleCandidates |-> variant.titleCandidates,
                      body |-> variant.body, hashtags |-> variant.hashtags]>>)
          \o variantEvents(Tail(platforms), contentLen)

\* part_004 lines 129-435, without LLM configuration and with
\* USE_LEGACY_CONTENT_WORKFLOW unset
rewriteGenerate(req) ==
  LET sourceContentLen == IF req.draftContentLen > 0 THEN req.draftContentLen
                          ELSE 9 + StrLen(req.draftId[1]) + StrLen(req.draftId[2])
      events == variantEvents(req.platforms, sourceContentLen)
      taskVariants ==
        [p \in Range(req.platforms) \cap DOMAIN platformConfigs |->
           buildFallbackVariant(p, sourceContentLen)]
      validation == verifyRewriteResult(taskVariants, req.platforms)
  IN IF req.draftId = << >> \/ req.platforms = << >>
     THEN ErrorEnvelope("VALIDATION_ERROR", "draftId and platforms are required")
     ELSE IF DOMAIN taskVariants = {}
     THEN Streamed(<<[type |-> "meta"]>> \o events
                   \o <<[type |-> "error", platform |-> "",
                         message |-> "No platform variants generated"]>>)
     ELSE IF ~validation.ok
     THEN Streamed(<<[type |-> "meta"]>> \o events
                   \o <<[type |-> "validator"],
                        [type |-> "error", platform |-> "",
                         message |-> "rewrite_validation_failed"]>>)
     ELSE Streamed(<<[type |-> "meta"]>> \o events \o <<[type |-> "validator"]>>)

\* README.md lines 415-439 (the /api/analytics/summary handler): always meta.ok
analyticsSummary(query) == JsonOk

\* What the executors make of a response before they verify it.
\* task-registry.ts lines 497-556
RECURSIVE foldResearch(_, _)
foldResearch(events, acc) ==
  IF events = << >> THEN acc
  ELSE LET evt == Head(events)
       IN IF evt.type = "error"
          THEN [acc EXCEPT !.fail = <<Or(evt.code, "PROVIDER_UNAVAILABLE"),
                                      Or(evt.message, "research failed")>>]
          ELSE foldResearch(Tail(events),
                 CASE evt.type = "source" -> [acc EXCEPT !.sources = @ + 1]
                   [] evt.type = "provider" ->
                        [acc EXCEPT !.provider = Or(evt.provider, @)]
                   [] evt.type = "insight" ->
                        [acc EXCEPT !.summary = evt.summary,
                                    !.titles = evt.recommendedTitles]
                   [] OTHER -> acc)

parseResearch(response) ==
  LET none == [fail |-> << >>, sources |-> 0, summary |-> "", titles |-> 0,
               provider |-> "unknown"]
  IN IF ~response.ok
     THEN [none EXCEPT !.fail = <<extractApiError(response).code,
                                  extractApiError(response).message>>]
     ELSE foldResearch(parseSseLines(response.lines), none)

\* task-registry.ts lines 603-620
\* the loop over events[lo..hi], halved at each step: the characters of the
\* content events and the number of warning events
RECURSIVE foldDraft(_, _, _)
foldDraft(events, lo, hi) ==
  IF lo > hi THEN [len |-> 0, warnings |-> 0]
  ELSE IF lo = hi
  THEN [len |-> IF events[lo].type = "content" THEN events[lo].text ELSE 0,
        warnings |-> IF events[lo].type = "warning" THEN 1 ELSE 0]
  ELSE LET mid == (lo + hi) \div 2
           left == foldDraft(events, lo, mid)
           right == foldDraft(events, mid + 1, hi)
       IN [len |-> left.len + right.len,
           warnings |-> left.warnings + right.warnings]

parseDraft(response) ==
  LET none == [fail |-> << >>, len |-> 0, warnings |-> 0]
      events == parseSseLines(response.lines)
      errors == {n \in 1..Len(events) : events[n].type = "error"}
      evt == events[CHOOSE n \in errors : \A m \in errors : n <= m]
  IN IF ~response.ok
     THEN [none EXCEPT !.fail = <<extractApiError(response).code,
                                  extractApiError(response).message>>]
     ELSE IF errors # {}      \* the first error event throws
     THEN [none EXCEPT !.fail = <<Or(evt.code, "PROVIDER_UNAVAILABLE"),
                                  Or(evt.message, "draft failed")>>]
     ELSE [fail |-> << >>,
           len |-> foldDraft(events, 1, Len(events)).len,
           warnings |-> foldDraft(events, 1, Len(events)).warnings]

\* task-registry.ts lines 663-687: error events are recorded, not thrown
RECURSIVE foldRewrite(_, _)
foldRewrite(events, variants) ==
  IF events = << >> THEN variants
  ELSE LET evt == Head(events)
       IN foldRewrite(Tail(events),
            IF evt.type = "variant" /\ evt.platform # ""
            THEN [p \in DOMAIN variants \cup {evt.platform} |->
                    IF p = evt.platform
                    THEN [body |-> evt.body,
                          titleCandidates |-> evt.titleCandidates,
                          hashtags |-> evt.hashtags]
                    ELSE variants[p]]
            ELSE variants)

parseRewrite(response) ==
  IF ~response.ok
  THEN [fail |-> <<extractApiError(response).code,
                   extractApiError(response).message>>, variants |-> << >>]
  ELSE [fail |-> << >>,
        variants |-> foldRewrite(parseSseLines(response.lines), << >>)]

\* task-registry.ts lines 839-845
parseAnalytics(response) ==
  IF ~response.ok
  THEN [fail |-> <<extractApiError(response).code,
                   extractApiError(response).message>>]
  ELSE [fail |-> << >>]

\* task-registry.ts lines 375-396: the requests the executors send
buildDraftInput(b) ==
  [projectId |-> b.projectId, topic |-> b.topic, tone |-> b.tone,
   audience |-> b.audience, length |-> b.length,
   researchSummary |-> IF b.research = NoRec THEN ""
                       ELSE b.research.insight.summary]

buildRewriteInput(b, id) ==
  [projectId |-> b.projectId, topic |-> b.topic,
   draftId |-> <<"draft-", id>>,
   draftContentLen |-> IF b.draft = NoRec THEN 0 ELSE b.draft.content,
   platforms |-> b.platforms]

\* the taskId of executeWorkflowRun (line 882); a generated id is one name
RunnerTaskId(o) == Or(o.resumeTaskId, Or(o.idempotencyKey, "workflow-generated"))

\* the answers of the four endpoints when no credentials are configured
EndpointAnswers(stepKey, o, b) ==
  CASE stepKey = "research" ->
         {parseResearch(researchStart(b.topic, legacy)) :
            legacy \in {"off", "unreachable"}}
    [] stepKey = "draft" -> {parseDraft(draftGenerate(buildDraftInput(b)))}
    [] stepKey = "rewrite" ->
         {parseRewrite(rewriteGenerate(buildRewriteInput(b, RunnerTaskId(o))))}
    [] stepKey = "analytics" -> {parseAnalytics(analyticsSummary(b))}

\* a skipped optional stage makes no outbound call
IsOutbound(stepKey, o) ==
  /\ ~(stepKey = "assets" /\ ~o.generateAsset)
  /\ ~(stepKey = "publish" /\ ~o.publishToWordpress)

Outcomes(stepKey, o, b) ==
  IF ~IsOutbound(stepKey, o) THEN {[fail |-> << >>]}
  ELSE IF /\ ~hasSearchConfig /\ ~hasChatModelConfig
          /\ stepKey \in {"research", "draft", "rewrite", "analytics"}
  THEN EndpointAnswers(stepKey, o, b)
  ELSE CASE stepKey = "research" -> ResearchOutcomes(b)
         [] stepKey = "draft" -> DraftOutcomes
         [] stepKey = "rewrite" -> RewriteOutcomes(b)
         [] stepKey = "assets" -> AssetOutcomes
         [] stepKey = "publish" -> PublishOutcomes
         [] stepKey = "analytics" -> AnalyticsOutcomes

\* lines 936-960: dispatch on the step key
runStage(stepKey, o, b, out) ==
  CASE stepKey = "research" -> runResearch(o, b, out)
    [] stepKey = "draft" -> runDraft(o, b, out)
    [] stepKey = "rewrite" -> runRewrite(o, b, out)
    [] stepKey = "assets" -> runAssets(o, b, out)
    [] stepKey = "publish" -> runPublish(o, b, out)
    [] stepKey = "analytics" -> runAnalytics(o, b, out)

(* ------------------------------ run entry point ------------------------ *)
\* Request bodies.  A string field is "" when the JSON body lacks it,
\* platforms is << >> when it is not an array, and the two flags are
\* "absent", "true" or "false".  Strings are given trimmed.
EmptyBody ==
  [projectId |-> "", topic |-> "", researchTool |-> "", timeWindow |-> "",
   tone |-> "", audience |-> "", length |-> "", platforms |-> << >>,
   generateAsset |-> "absent", publishToWordpress |-> "absent",
   traceId |-> "", idempotencyKey |-> "", resumeTaskId |-> ""]

Bodies ==
  { \* a first run with every option chosen by the caller
    [EmptyBody EXCEPT !.projectId = "p1", !.topic = "ai", !.idempotencyKey = "t1",
                      !.researchTool = "NEWS_SEARCH", !.timeWindow = "30d",
                      !.tone = "casual", !.audience = "devs", !.length = "long",
                      !.platforms = <<"WECHAT">>],
    \* a first run with defaults, optional stages off, generated task id
    [EmptyBody EXCEPT !.projectId = "p2", !.topic = "growth",
                      !.generateAsset = "false", !.publishToWordpress = "false"],
    \* the first request of scripts/smoke-workflow-recovery.mjs
    [EmptyBody EXCEPT !.projectId = "p1", !.topic = "", !.resumeTaskId = "t1",
                      !.timeWindow = "7d", !.researchTool = "WEB_SEARCH",
                      !.generateAsset = "false", !.publishToWordpress = "false",
                      !.traceId = "trace-t1", !.idempotencyKey = "idem-t1"],
    \* its second request: the same task with a valid topic
    [EmptyBody EXCEPT !.projectId = "p1", !.topic = "ip", !.resumeTaskId = "t1",
                      !.timeWindow = "7d", !.researchTool = "WEB_SEARCH",
                      !.tone = "professional", !.length = "medium",
                      !.generateAsset = "false", !.publishToWordpress = "false",
                      !.traceId = "trace-recover-t1",
                      !.idempotencyKey = "idem-recover-t1"],
    \* resumeTaskId with another platforms list, and resumeTaskId alone
    [EmptyBody EXCEPT !.resumeTaskId = "t1", !.platforms = <<"WECHAT", "WEIBO">>],
    [EmptyBody EXCEPT !.resumeTaskId = "t2"],
    \* malformed: no resumeTaskId, and projectId or topic missing
    [EmptyBody EXCEPT !.topic = "ai"],
    [EmptyBody EXCEPT !.projectId = "p1"] }

\* route.ts line 10: a fresh UUID, never the id of a stored task
createId(store) == {id \in GeneratedIds : store[id] = NoRec}

\* route.ts lines 58-75
RouteOptions(b) ==
  [projectId |-> b.projectId,
   topic |-> b.topic,
   researchTool |-> IF b.researchTool = "NEWS_SEARCH" THEN "NEWS_SEARCH"
                    ELSE "WEB_SEARCH",
   timeWindow |-> Or(b.timeWindow, "7d"),
   tone |-> Or(b.tone, "professional"),
   audience |-> Or(b.audience, "creators"),
   length |-> IF b.length = "short" \/ b.length = "long" THEN b.length
              ELSE "medium",
   platforms |-> b.platforms,
   generateAsset |-> b.generateAsset # "false",
   publishToWordpress |-> b.publishToWordpress # "false",
   traceId |-> Or(b.traceId, Undef),
   idempotencyKey |-> Or(b.idempotencyKey, Undef),
   resumeTaskId |-> Or(b.resumeTaskId, Undef)]

\* a registration that leaves the status to the registry
RouteUpsertInput_noStatus(b) ==
  [kind |-> "workflow",
   status |-> Undef,
   progress |-> 5,
   projectId |-> Or(b.projectId, Undef),
   provider |-> "workflow",
   traceId |-> Or(b.traceId, Undef),
   idempotencyKey |-> Or(b.idempotencyKey, Undef),
   payload |-> [topic |-> b.topic,
                researchTool |-> IF b.researchTool = "NEWS_SEARCH"
                                 THEN "NEWS_SEARCH" ELSE "WEB_SEARCH",
                resumeTaskId |-> Or(b.resumeTaskId, Undef)]]

\* route.ts lines 42-56
RouteUpsertInput(b) ==
  [kind |-> "workflow",
   status |-> "RUNNING",
   progress |-> 5,
   projectId |-> Or(b.projectId, Undef),
   provider |-> "workflow",
   traceId |-> Or(b.traceId, Undef),
   idempotencyKey |-> Or(b.idempotencyKey, Undef),
   payload |-> [topic |-> b.topic,
                researchTool |-> IF b.researchTool = "NEWS_SEARCH"
                                 THEN "NEWS_SEARCH" ELSE "WEB_SEARCH",
                resumeTaskId |-> Or(b.resumeTaskId, Undef)]]

\* lines 978-988
FailedResult_plainBundle(o, stepKey, log, b) ==
  [taskId |-> RunnerTaskId(o), status |-> "FAILED", failedStep |-> stepKey,
   recoverable |-> TRUE, steps |-> log, bundle |-> b]

FailedResult(o, stepKey, log, b) ==
  [taskId |-> RunnerTaskId(o), status |-> "FAILED", failedStep |-> stepKey,
   recoverable |-> TRUE, steps |-> log,
   bundle |-> [b EXCEPT !.finalOutput = aggregateFinalOutput(b)]]

\* lines 992-999
CompletedResult(o, log, b) ==
  [taskId |-> RunnerTaskId(o), status |-> "COMPLETED", failedStep |-> Undef,
   recoverable |-> FALSE, steps |-> log,
   bundle |-> [b EXCEPT !.finalOutput = aggregateFinalOutput(b)]]

\* The step objects of a resumed run are the objects stored in the payload of
\* the resumed task (initSteps copies the array, not its elements), so a write
\* to a step of the running log is a write to the stored log as well.
SharesSteps(store, o, isResumed) ==
  /\ isResumed
  /\ store[o.resumeTaskId] # NoRec
  /\ "steps" \in DOMAIN store[o.resumeTaskId].payload
  /\ Len(store[o.resumeTaskId].payload.steps) = Len(STEP_ORDER)

WriteSteps(store, o, isResumed, log) ==
  IF SharesSteps(store, o, isResumed)
  THEN [store EXCEPT ![o.resumeTaskId].payload.steps = log]
  ELSE store

\* a loop that goes to the last stage it does not skip
NextToRun_unordered(i, rIndex, log) ==
  LET run == {j \in i..Len(STEP_ORDER) : ~ShouldSkip(j, rIndex, log[j])}
  IN IF run = {} THEN Len(STEP_ORDER) + 1
     ELSE CHOOSE j \in run : \A k \in run : j >= k

\* least index from i on that the loop does not skip; Len(STEP_ORDER)+1 if none
NextToRun(i, rIndex, log) ==
  LET run == {j \in i..Len(STEP_ORDER) : ~ShouldSkip(j, rIndex, log[j])}
  IN IF run = {} THEN Len(STEP_ORDER) + 1
     ELSE CHOOSE j \in run : \A k \in run : j <= k

\* the loop of executeWorkflowRun from index i up to its next suspension:
\* either the executor of step j is invoked (pc "await") or the loop ends and
\* the runner returns COMPLETED (pc "returned")
Continue(i, rIndex, log, b, o, isResumed, store, inv, t) ==
  LET j == NextToRun(i, rIndex, log)
  IN IF j <= Len(STEP_ORDER)
     THEN LET log2 == [log EXCEPT ![j] = MarkRunning(log[j], t)]
          IN /\ steps' = log2
             /\ registry' = WriteSteps(store, o, isResumed, log2)
             /\ index' = j
             /\ startedAt' = t
             /\ invoked' = Append(inv, j)
             /\ bundle' = b
             /\ result' = NoRec
             /\ pc' = "await"
     ELSE /\ steps' = log
          /\ registry' = store
          /\ index' = j
          /\ startedAt' = NoTime
          /\ invoked' = inv
          /\ bundle' = [b EXCEPT !.finalOutput = aggregateFinalOutput(b)]
          /\ result' = CompletedResult(o, log, b)
          /\ pc' = "returned"

\* POST /api/workflow/run up to the first suspension of the runner
Post(b, id) ==
  /\ pc = "idle"
  /\ requests < MaxRequests
  /\ requests' = requests + 1
  /\ id \in (IF Or(b.resumeTaskId, Or(b.idempotencyKey, b.traceId)) # ""
             THEN {Or(b.resumeTaskId, Or(b.idempotencyKey, b.traceId))}
             ELSE createId(registry))
  /\ \/ b.resumeTaskId # ""
     \/ (b.projectId # "" /\ b.topic # "")
  /\ LET o == RouteOptions(b)
         store == upsertTask(registry, id, RouteUpsertInput(b), now)
         persisted == IF o.resumeTaskId # Undef
                      THEN buildWorkflowFromTask(store, o.resumeTaskId, now)
                      ELSE NoRec
         baseBundle == BaseBundle(o, persisted)
         log == initSteps(IF persisted # NoRec THEN persisted.steps ELSE << >>)
         rIndex == IF persisted # NoRec THEN findResumeIndex(log) ELSE 1
     IN /\ body' = b
        /\ taskId' = id
        /\ options' = o
        /\ resumed' = (persisted # NoRec)
        /\ resumeIndex' = rIndex
        /\ steps0' = log
        /\ base0' = IF persisted # NoRec THEN persisted.bundle ELSE NoRec
        /\ reg0' = store[id]
        /\ Continue(1, rIndex, log, EffectiveBundle(o, baseBundle), o,
                    persisted # NoRec, store, << >>, now)
  /\ answer' = NoRec
  /\ UNCHANGED <<call, ret, written, calls, credentials, now, resp>>
  /\ order' = MapOrder(order, registry, registry', now')

\* an entry point that registers the task before it validates the request
Reject_registers(b) ==
  /\ pc = "idle"
  /\ b.resumeTaskId = ""
  /\ (b.projectId = "" \/ b.topic = "")
  /\ requests < MaxRequests
  /\ requests' = requests + 1
  /\ resp' = [ok |-> FALSE, code |-> "VALIDATION_ERROR", http |-> 400, body |-> b]
  /\ \E id \in createId(registry) :
       registry' = upsertTask(registry, id, RouteUpsertInput(b), now)
  /\ UNCHANGED <<call, ret, written, calls, credentials, now, pc, body, taskId, options, resumed, resumeIndex,
                 index, steps, bundle, startedAt, result, steps0, base0, reg0,
                 invoked, answer>>
  /\ order' = MapOrder(order, registry, registry', now')

\* route.ts lines 31-40: the request is answered 400 before any task exists
Reject(b) ==
  /\ pc = "idle"
  /\ b.resumeTaskId = ""
  /\ (b.projectId = "" \/ b.topic = "")
  /\ requests < MaxRequests
  /\ requests' = requests + 1
  /\ resp' = [ok |-> FALSE, code |-> "VALIDATION_ERROR", http |-> 400, body |-> b]
  /\ UNCHANGED <<call, ret, written, calls, credentials, registry, now, pc, body, taskId, options, resumed, resumeIndex,
                 index, steps, bundle, startedAt, result, steps0, base0, reg0,
                 invoked, answer>>
  /\ order' = MapOrder(order, registry, registry', now')

\* the awaited executor returns: lines 962-967, then the loop goes on
StageSucceeds ==
  /\ pc = "await"
  /\ LET stepKey == STEP_ORDER[index]
         t == IF IsOutbound(stepKey, options) THEN now + 1 ELSE now
     IN /\ \E out \in Outcomes(stepKey, options, bundle) :
             LET run == runStage(stepKey, options, bundle, out)
                 log == [steps EXCEPT ![index] =
                           MarkCompleted(steps[index], run.provider,
                                         run.validation, startedAt, t)]
             IN /\ run.thrown = << >>
                /\ answer' = [step |-> stepKey, out |-> out]
                /\ Continue(index + 1, resumeIndex, log, run.bundle, options,
                            resumed, WriteSteps(registry, options, resumed, log),
                            invoked, t)
        /\ now' = t
  /\ UNCHANGED <<call, ret, written, calls, credentials, body, taskId, options, resumed, resumeIndex, resp, steps0,
                 base0, reg0, requests>>
  /\ order' = MapOrder(order, registry, registry', now')

\* a runner that records the failure and goes on with the next stage
StageFails_continues ==
  /\ pc = "await"
  /\ LET stepKey == STEP_ORDER[index]
         t == IF IsOutbound(stepKey, options) THEN now + 1 ELSE now
     IN /\ \E out \in Outcomes(stepKey, options, bundle) :
             LET run == runStage(stepKey, options, bundle, out)
                 log == [steps EXCEPT ![index] =
                           MarkFailed(steps[index], run.thrown, startedAt, t)]
             IN /\ run.thrown # << >>
                /\ answer' = [step |-> stepKey, out |-> out]
                /\ Continue(index + 1, resumeIndex, log, run.bundle, options,
                            resumed, WriteSteps(registry, options, resumed, log),
                            invoked, t)
        /\ now' = t
  /\ UNCHANGED <<call, ret, written, calls, credentials, body, taskId, options, resumed, resumeIndex, resp, steps0,
                 base0, reg0, requests>>
  /\ order' = MapOrder(order, registry, registry', now')

\* the awaited executor throws: lines 969-989
StageFails ==
  /\ pc = "await"
  /\ LET stepKey == STEP_ORDER[index]
         t == IF IsOutbound(stepKey, options) THEN now + 1 ELSE now
     IN /\ \E out \in Outcomes(stepKey, options, bundle) :
             LET run == runStage(stepKey, options, bundle, out)
                 log == [steps EXCEPT ![index] =
                           MarkFailed(steps[index], run.thrown, startedAt, t)]
             IN /\ run.thrown # << >>
                /\ answer' = [step |-> stepKey, out |-> out]
                /\ steps' = log
                /\ registry' = WriteSteps(registry, options, resumed, log)
                /\ bundle' = run.bundle
                /\ result' = FailedResult(options, stepKey, log, run.bundle)
        /\ now' = t
  /\ pc' = "returned"
  /\ UNCHANGED <<call, ret, written, calls, credentials, body, taskId, options, resumed, resumeIndex, index,
                 startedAt, resp, steps0, base0, reg0, invoked, requests>>
  /\ order' = MapOrder(order, registry, registry', now')

\* Math.round(num / den) for num >= 0, den > 0
Round(num, den) == (2 * num + den) \div (2 * den)

CompletedSteps(log) == Cardinality({i \in 1..Len(log) : log[i].status = "COMPLETED"})

\* a progress that is rounded down
RouteProgress_floor(log) == (CompletedSteps(log) * 100) \div Max(Len(log), 1)

\* route.ts lines 77-78
RouteProgress(log) == Round(CompletedSteps(log) * 100, Max(Len(log), 1))

\* an entry point that finalizes the status but never writes the run's payload
RouteFinalize_statusOnly(store, id, r, t) ==
  IF r.status = "FAILED"
  THEN failTask(store, id,
                [code |-> "PROVIDER_UNAVAILABLE",
                 message |-> <<"workflow failed">>, retriable |-> TRUE],
                [progress |-> RouteProgress(r.steps)], t)
  ELSE completeTask(store, id, [provider |-> "workflow", progress |-> 100], t)

\* route.ts lines 80-123: the writes after the runner has returned
RouteFinalize(store, id, r, t) ==
  LET progress == RouteProgress(r.steps)
      full == [steps |-> r.steps, bundle |-> r.bundle, status |-> r.status,
               failedStep |-> r.failedStep, recoverable |-> r.recoverable]
      patched == patchTask(store, id, [progress |-> progress, payload |-> full], t)
  IN IF r.status = "FAILED"
     THEN failTask(patched, id,
                   [code |-> "PROVIDER_UNAVAILABLE",
                    message |-> IF r.failedStep # Undef
                                THEN <<"workflow failed at step", r.failedStep>>
                                ELSE <<"workflow failed">>,
                    retriable |-> TRUE],
                   [progress |-> progress, payload |-> full], t)
     ELSE completeTask(patched, id,
                       [provider |-> "workflow", progress |-> 100,
                        payload |-> [steps |-> r.steps, bundle |-> r.bundle,
                                     status |-> r.status,
                                     recoverable |-> r.recoverable]], t)

\* an entry point that answers without finalizing the task
Finalize_noWrite ==
  /\ pc = "returned"
  /\ registry' = registry
  /\ resp' = [ok |-> TRUE, taskId |-> taskId, status |-> result.status,
              failedStep |-> result.failedStep,
              recoverable |-> result.recoverable,
              steps |-> result.steps, bundle |-> result.bundle]
  /\ pc' = "idle"
  /\ body' = NoRec
  /\ taskId' = Undef
  /\ options' = NoRec
  /\ resumed' = FALSE
  /\ resumeIndex' = 1
  /\ index' = 1
  /\ steps' = << >>
  /\ bundle' = NoRec
  /\ startedAt' = NoTime
  /\ result' = NoRec
  /\ steps0' = << >>
  /\ base0' = NoRec
  /\ reg0' = NoRec
  /\ invoked' = << >>
  /\ answer' = NoRec
  /\ UNCHANGED <<call, ret, written, calls, credentials, now, requests>>
  /\ order' = MapOrder(order, registry, registry', now')

\* the runner has returned: route.ts lines 77-132
Finalize ==
  /\ pc = "returned"
  /\ registry' = RouteFinalize(registry, taskId, result, now)
  /\ resp' = [ok |-> TRUE, taskId |-> taskId, status |-> result.status,
              failedStep |-> result.failedStep,
              recoverable |-> result.recoverable,
              steps |-> result.steps, bundle |-> result.bundle]
  /\ pc' = "idle"
  /\ body' = NoRec
  /\ taskId' = Undef
  /\ options' = NoRec
  /\ resumed' = FALSE
  /\ resumeIndex' = 1
  /\ index' = 1
  /\ steps' = << >>
  /\ bundle' = NoRec
  /\ startedAt' = NoTime
  /\ result' = NoRec
  /\ steps0' = << >>
  /\ base0' = NoRec
  /\ reg0' = NoRec
  /\ invoked' = << >>
  /\ answer' = NoRec
  /\ UNCHANGED <<call, ret, written, calls, credentials, now, requests>>
  /\ order' = MapOrder(order, registry, registry', now')

Init ==
  /\ registry = [id \in TaskIds |-> NoRec]
  /\ now = 0
  /\ pc = "idle"
  /\ body = NoRec
  /\ taskId = Undef
  /\ options = NoRec
  /\ resumed = FALSE
  /\ resumeIndex = 1
  /\ index = 1
  /\ steps = << >>
  /\ bundle = NoRec
  /\ startedAt = NoTime
  /\ result = NoRec
  /\ resp = NoRec
  /\ steps0 = << >>
  /\ base0 = NoRec
  /\ reg0 = NoRec
  /\ invoked = << >>
  /\ answer = NoRec
  /\ requests = 0
  /\ credentials \in BOOLEAN
  /\ order = << >>
  /\ call = NoRec
  /\ ret = NoRec
  /\ written = [id \in TaskIds |-> [payload |-> EmptyObj, field |-> EmptyObj]]
  /\ calls = 0

Next ==
  \/ \E b \in Bodies : \E id \in TaskIds : Post(b, id)
  \/ \E b \in Bodies : Reject(b)
  \/ StageSucceeds
  \/ StageFails
  \/ Finalize

Spec == Init /\ [][Next]_vars

(* ------------------------- clients of the registry --------------------- *)
\* Calls of the functions task-registry.ts exports, made by two writers.
\* Every exported function is synchronous, so the calls of concurrent request
\* handlers interleave as whole calls.  The registry starts empty; between
\* calls the clock may step by a millisecond, by three minutes or by a day.
runVars == <<pc, body, taskId, options, resumed, resumeIndex, index, steps,
             bundle, startedAt, result, resp, steps0, base0, reg0, invoked,
             answer, requests, credentials>>

STALE_MS == 3 * 60 * 1000

NoSteps == << >>

UpsertCalls ==
  {[by |-> "w1", input |-> [kind |-> "workflow", projectId |-> "p1",
                            payload |-> [a |-> 1]]],
   [by |-> "w2", input |-> [kind |-> "workflow", status |-> "FAILED",
                            progress |-> 140, projectId |-> "p1",
                            payload |-> [a |-> 2, b |-> 2]]],
   [by |-> "w1", input |-> [kind |-> "draft", status |-> "RUNNING",
                            progress |-> -5]],
   [by |-> "w2", input |-> [kind |-> "workflow", progress |-> Infinity,
                            projectId |-> "p2",
                            payload |-> [steps |-> NoSteps]]]}

PatchCalls ==
  {[by |-> "w2", patch |-> [payload |-> [b |-> 2]]],
   [by |-> "w1", patch |-> [payload |-> [a |-> 3], provider |-> "llm"]],
   [by |-> "w1", patch |-> [progress |-> NaN]],
   [by |-> "w2", patch |-> [progress |-> 6, status |-> "RUNNING"]]}

CompleteCalls ==
  {[by |-> "w1", patch |-> EmptyObj],
   [by |-> "w2", patch |-> [progress |-> Half(39), payload |-> [a |-> 2]]]}

Unavailable ==
  [code |-> "PROVIDER_UNAVAILABLE", message |-> "request failed", retriable |-> TRUE]

FailCalls ==
  {[by |-> "w1", patch |-> EmptyObj],
   [by |-> "w2", patch |-> [progress |-> 140, payload |-> [b |-> 1]]]}

Steps == {1, STALE_MS, MAX_AGE_MS, MAX_AGE_MS + 1}

\* the fields a call writes verbatim
Verbatim == {"kind", "status", "provider", "projectId"}

NoteKeys(w, values, by) ==
  [k \in DOMAIN w \cup DOMAIN values |->
     IF k \in DOMAIN values
     THEN [value |-> values[k], last |-> by,
           writers |-> (IF k \in DOMAIN w THEN w[k].writers ELSE {}) \cup {by}]
     ELSE w[k]]

\* arg: the fields the call hands to the registry
NoteWrite(w, arg, by) ==
  [payload |-> NoteKeys(w.payload, Obj(Get(arg, "payload", NoRec)), by),
   field |-> NoteKeys(w.field,
                      [k \in DOMAIN arg \cap Verbatim |-> arg[k]], by)]

Unwritten == [payload |-> EmptyObj, field |-> EmptyObj]

\* what has been written to the tasks of next by the calls so far
Noted(id, by, arg, next) ==
  LET cleaned == getTaskRegistry(registry, now)
  IN [j \in TaskIds |->
        IF next[j] = NoRec THEN Unwritten
        ELSE LET w == IF cleaned[j] = NoRec THEN Unwritten ELSE written[j]
             IN IF j = id THEN NoteWrite(w, arg, by) ELSE w]

Write(op, id, by, arg, noted, next, value) ==
  /\ calls < MaxCalls
  /\ calls' = calls + 1
  /\ registry' = next
  /\ order' = MapOrder(order, registry, next, now)
  /\ call' = [op |-> op, id |-> id, by |-> by, arg |-> arg]
  /\ ret' = value
  /\ written' = Noted(id, by, noted, next)
  /\ UNCHANGED now
  /\ UNCHANGED runVars

Upsert(id, c) ==
  LET next == upsertTask(registry, id, c.input, now)
  IN Write("upsert", id, c.by, c.input, c.input, next, next[id])

Patch(id, c) ==
  LET next == patchTask(registry, id, c.patch, now)
  IN Write("patch", id, c.by, c.patch, c.patch, next,
           patchTaskReturns(registry, id, next, now))

Complete(id, c) ==
  LET next == completeTask(registry, id, c.patch, now)
  IN Write("complete", id, c.by, c.patch,
           Spread(c.patch, [status |-> "COMPLETED"]), next,
           patchTaskReturns(registry, id, next, now))

Fail(id, c) ==
  LET next == failTask(registry, id, Unavailable, c.patch, now)
  IN Write("fail", id, c.by, c.patch,
           Spread(c.patch, [status |-> "FAILED"]), next,
           patchTaskReturns(registry, id, next, now))

Read(op, id, arg, value) ==
  LET next == getTaskRegistry(registry, now)
  IN /\ registry' = next
     /\ order' = MapOrder(order, registry, next, now)
     /\ call' = [op |-> op, id |-> id, by |-> Undef, arg |-> arg]
     /\ ret' = value
     /\ written' = [j \in TaskIds |->
                      IF next[j] = NoRec THEN Unwritten ELSE written[j]]
     /\ UNCHANGED <<now, calls>>
     /\ UNCHANGED runVars

GetTask(id) == Read("get", id, NoRec, getTask(registry, id, now))

Step(d) ==
  /\ calls < MaxCalls
  /\ calls' = calls + 1
  /\ now' = now + d
  /\ call' = [op |-> "step", id |-> Undef, by |-> Undef, arg |-> NoRec]
  /\ ret' = NoRec
  /\ UNCHANGED <<registry, order, written>>
  /\ UNCHANGED runVars

(* ---------------------------- recovery listing ------------------------ *)
\* a staleness test that does not look at the progress
isStaleRunningTask_anyProgress(task, t) ==
  /\ task.status = "RUNNING"
  /\ ~(task.payload # NoRec /\ "steps" \in DOMAIN task.payload)
  /\ task.startedAt = task.updatedAt
  /\ t - task.updatedAt > STALE_MS

\* part_006 lines 9-33 and recover/route.ts lines 21-33: a RUNNING task that
\* never got past its registration
isStaleRunningTask(task, t) ==
  /\ task.status = "RUNNING"
  /\ task.progress <= 5
  /\ ~(task.payload # NoRec /\ "steps" \in DOMAIN task.payload)
  /\ task.startedAt = task.updatedAt
  /\ t - task.updatedAt > STALE_MS

\* part_006 lines 50-59: the first candidate of each project
RECURSIVE groupByProject(_, _, _, _)
groupByProject(candidates, seenProjectIds, grouped, limit) ==
  IF candidates = << >> \/ Len(grouped) >= limit THEN grouped
  ELSE LET task == Head(candidates)
           key == Or(task.projectId, "")
       IN IF key = "" \/ key \in seenProjectIds
          THEN groupByProject(Tail(candidates), seenProjectIds, grouped, limit)
          ELSE groupByProject(Tail(candidates), seenProjectIds \cup {key},
                              Append(grouped, task), limit)

\* GET /api/workflow/recover/list (part_006 lines 35-70).  query.limit is the
\* number parseInt makes of the limit parameter, NaN if it is no number.
recoverList(store, ord, query, t) ==
  LET limitParam == Get(query, "limit", 50)
      limit == IF isFinite(limitParam) THEN Min(Max(limitParam, 1), 200) ELSE 50
      listed == listTasks(store, ord,
                          [kind |-> "workflow",
                           status |-> [array |-> <<"RUNNING", "FAILED">>],
                           projectId |-> Or(query.projectId, Undef),
                           limit |-> Max(limit * 3, 50)], t)
      candidates == SelectSeq(listed, LAMBDA task : ~isStaleRunningTask(task, t))
      tasks == IF query.byProject
               THEN groupByProject(candidates, {}, << >>, limit)
               ELSE slice(candidates, limit)
  IN [tasks |-> tasks, count |-> Len(tasks), byProject |-> query.byProject,
      projectId |-> query.projectId]

\* GET /api/workflow/recover (recover/route.ts lines 9-49)
recoverLatest(store, ord, projectId, t) ==
  LET latestCandidates ==
        listTasks(store, ord,
                  [kind |-> "workflow",
                   status |-> [array |-> <<"RUNNING", "FAILED">>],
                   projectId |-> Or(projectId, Undef), limit |-> 10], t)
      found == SelectSeq(latestCandidates,
                         LAMBDA task : task.status # "RUNNING"
                                       \/ ~isStaleRunningTask(task, t))
  IN IF found = << >> THEN [found |-> FALSE, projectId |-> projectId]
     ELSE [found |-> TRUE, task |-> found[1], resumeTaskId |-> found[1].taskId]

ListQueries ==
  {[kind |-> "workflow"],
   [status |-> [one |-> "FAILED"], limit |-> 1],
   [status |-> [array |-> <<"RUNNING", "FAILED">>], projectId |-> "p1"],
   [limit |-> 0],
   [limit |-> NaN]}

RecoverQueries ==
  {[projectId |-> "p1", byProject |-> FALSE, limit |-> 20],
   [projectId |-> "", byProject |-> TRUE],
   [projectId |-> "", byProject |-> FALSE, limit |-> 1]}

ListTasks(q) == Read("list", Undef, q, listTasks(registry, order, q, now))

RecoverList(q) ==
  Read("recoverList", Undef, q, recoverList(registry, order, q, now))

RecoverLatest(projectId) ==
  Read("recover", Undef, [projectId |-> projectId],
       recoverLatest(registry, order, projectId, now))

RegInit == Init /\ ~credentials

RegNext ==
  \/ \E id \in TaskIds : \E c \in UpsertCalls : Upsert(id, c)
  \/ \E id \in TaskIds : \E c \in PatchCalls : Patch(id, c)
  \/ \E id \in TaskIds : \E c \in CompleteCalls : Complete(id, c)
  \/ \E id \in TaskIds : \E c \in FailCalls : Fail(id, c)
  \/ \E id \in TaskIds : GetTask(id)
  \/ \E q \in {x \in ListQueries : "limit" \notin DOMAIN x} : ListTasks(q)
  \/ \E d \in Steps : Step(d)

RegSpec == RegInit /\ [][RegNext]_vars

\* the registry as the listings see it: tasks are registered, make progress,
\* complete, and time passes
ListNext ==
  \/ \E id \in TaskIds : \E c \in UpsertCalls : Upsert(id, c)
  \/ \E id \in TaskIds :
       \E c \in {p \in PatchCalls : "progress" \in DOMAIN p.patch} : Patch(id, c)
  \/ \E id \in TaskIds :
       \E c \in {p \in CompleteCalls : p.patch = EmptyObj} : Complete(id, c)
  \/ \E d \in Steps : Step(d)
  \/ \E q \in ListQueries : ListTasks(q)
  \/ \E q \in RecoverQueries : RecoverList(q)
  \/ RecoverLatest("p1")

ListSpec == RegInit /\ [][ListNext]_vars

(* ------------------------ callers of the verifier ---------------------- *)
\* verifyRewriteResult applied to variant maps as a caller may hand them over:
\* a body is a sequence of characters, a row may lack its fields.
WhiteSpace == {" "}

RECURSIVE trimStart(_)
trimStart(chars) ==
  IF chars # << >> /\ Head(chars) \in WhiteSpace THEN trimStart(Tail(chars))
  ELSE chars

RECURSIVE trimEnd(_)
trimEnd(chars) ==
  IF chars # << >> /\ chars[Len(chars)] \in WhiteSpace
  THEN trimEnd(SubSeq(chars, 1, Len(chars) - 1))
  ELSE chars

trim(chars) == trimEnd(trimStart(chars))

\* workflow-verifier.ts lines 86-88: String(row?.body || "").trim() and the
\* length of row.titleCandidates if it is an array
verifierRows(variants) ==
  [p \in DOMAIN variants |->
     [body |-> IF trim(Get(variants[p], "body", << >>)) = << >> THEN "" ELSE "text",
      titleCandidates |-> Get(variants[p], "titleCandidates", 0)]]

VerifierPlatforms == {"WECHAT", "WEIBO", "BILIBILI"}

RawBodies == {<< >>, <<" ">>, <<" ", " ">>, <<" ", "a", " ">>, <<"a">>}

RawRows == {EmptyObj} \cup [body : RawBodies, titleCandidates : 0..MaxTitles]

RawVariants ==
  UNION {[S -> RawRows] : S \in SUBSET VerifierPlatforms}

RequiredLists ==
  UNION {[1..n -> VerifierPlatforms] : n \in 0..MaxRequired}

VerifyInit ==
  /\ registry = [id \in TaskIds |-> NoRec]
  /\ now = 0
  /\ pc = "idle"
  /\ body = NoRec
  /\ taskId = Undef
  /\ options = NoRec
  /\ resumed = FALSE
  /\ resumeIndex = 1
  /\ index = 1
  /\ steps = << >>
  /\ bundle = NoRec
  /\ startedAt = NoTime
  /\ result = NoRec
  /\ resp = NoRec
  /\ steps0 = << >>
  /\ base0 = NoRec
  /\ reg0 = NoRec
  /\ invoked = << >>
  /\ answer = NoRec
  /\ requests = 0
  /\ credentials = FALSE
  /\ order = << >>
  /\ call \in [op : {"input"}, variants : RawVariants,
               requiredPlatforms : RequiredLists]
  /\ ret = NoRec
  /\ written = [id \in TaskIds |-> [payload |-> EmptyObj, field |-> EmptyObj]]
  /\ calls = 0

VerifyRewrite ==
  /\ call.op = "input"
  /\ call' = [call EXCEPT !.op = "verifyRewriteResult"]
  /\ ret' = verifyRewriteResult(verifierRows(call.variants),
                                call.requiredPlatforms)
  /\ UNCHANGED <<registry, now, order, written, calls>>
  /\ UNCHANGED runVars

VerifyNext == VerifyRewrite

VerifySpec == VerifyInit /\ [][VerifyNext]_vars

\* verifyDraftResult applied to contents of every length around the gate,
\* with and without surrounding white space; the second character of a text
\* of three characters or more is a space
DraftContents ==
  LET Pad(n) == [i \in 1..n |-> " "]
      Text(n) == [i \in 1..n |-> IF i = 2 /\ n >= 3 THEN " " ELSE "a"]
  IN {Pad(l) \o Text(n) \o Pad(r) :
        l \in 0..MaxPad, r \in 0..MaxPad, n \in 0..MaxChars}

DraftInit ==
  /\ registry = [id \in TaskIds |-> NoRec]
  /\ now = 0
  /\ pc = "idle"
  /\ body = NoRec
  /\ taskId = Undef
  /\ options = NoRec
  /\ resumed = FALSE
  /\ resumeIndex = 1
  /\ index = 1
  /\ steps = << >>
  /\ bundle = NoRec
  /\ startedAt = NoTime
  /\ result = NoRec
  /\ resp = NoRec
  /\ steps0 = << >>
  /\ base0 = NoRec
  /\ reg0 = NoRec
  /\ invoked = << >>
  /\ answer = NoRec
  /\ requests = 0
  /\ credentials = FALSE
  /\ order = << >>
  /\ call \in [op : {"input"}, content : DraftContents]
  /\ ret = NoRec
  /\ written = [id \in TaskIds |-> [payload |-> EmptyObj, field |-> EmptyObj]]
  /\ calls = 0

\* workflow-verifier.ts lines 52-61: text.trim().length
VerifyDraft ==
  /\ call.op = "input"
  /\ call' = [call EXCEPT !.op = "verifyDraftResult"]
  /\ ret' = verifyDraftResult(Len(trim(call.content)))
  /\ UNCHANGED <<registry, now, order, written, calls>>
  /\ UNCHANGED runVars

DraftSpec == DraftInit /\ [][VerifyDraft]_vars

(* ------------------------- the latest recoverable task ----------------- *)
\* Runs as GET /api/workflow/recover sees them: requests without a key of
\* their own arrive a millisecond apart, each registered under a fresh task
\* id; the runs of the first two may halt, the others are left RUNNING as the
\* entry point registered them.
RecoverInit ==
  /\ registry = [id \in {"t" \o ToString(i) : i \in 1..MaxTasks} |-> NoRec]
  /\ now = 0
  /\ pc = "idle"
  /\ body = NoRec
  /\ taskId = Undef
  /\ options = NoRec
  /\ resumed = FALSE
  /\ resumeIndex = 1
  /\ index = 1
  /\ steps = << >>
  /\ bundle = NoRec
  /\ startedAt = NoTime
  /\ result = NoRec
  /\ resp = NoRec
  /\ steps0 = << >>
  /\ base0 = NoRec
  /\ reg0 = NoRec
  /\ invoked = << >>
  /\ answer = NoRec
  /\ requests = 0
  /\ credentials = FALSE
  /\ order = << >>
  /\ call = NoRec
  /\ ret = NoRec
  /\ written = [id \in TaskIds |-> [payload |-> EmptyObj, field |-> EmptyObj]]
  /\ calls = 0

\* route.ts lines 10-15 and 42-56: the entry point registers the run of a
\* request under a generated id
Arrive(b) ==
  LET id == "t" \o ToString(Len(order) + 1)
  IN /\ Len(order) < MaxTasks
     /\ now' = now + 1
     /\ registry' = upsertTask(registry, id, RouteUpsertInput(b), now')
     /\ order' = MapOrder(order, registry, registry', now')
     /\ call' = [op |-> "upsert", id |-> id, by |-> Undef, arg |-> NoRec]
     /\ ret' = NoRec
     /\ UNCHANGED <<written, calls>>
     /\ UNCHANGED runVars

RecoverNext ==
  \/ \E b \in {x \in Bodies : /\ x.projectId # "" /\ x.topic # ""
                              /\ Or(x.resumeTaskId,
                                    Or(x.idempotencyKey, x.traceId)) = ""} :
       Arrive(b)
  \/ \E id \in TaskIds : \E c \in {f \in FailCalls : f.patch = EmptyObj} :
       Fail(id, c)
  \/ Step(STALE_MS + 1)
  \/ RecoverLatest("p2")

RecoverSpec == RecoverInit /\ [][RecoverNext]_vars

(* -------------------------------- claims ------------------------------- *)
Running == pc \in {"await", "returned"}
Returned == pc = "returned"
StepOf(stepKey) == CHOOSE i \in StepIdx : STEP_ORDER[i] = stepKey
WithStatus(log, status) == {i \in 1..Len(log) : log[i].status = status}
\* the step at which the persisted log of the resumed task had failed, 0 if
\* the invocation is not a resume or the persisted log has no FAILED step
FailedAtLoad == IF resumed THEN FindIndex(steps0, {"FAILED"}) ELSE 0
Last(seq) == seq[Len(seq)]

\* C1: when a stage executor throws, that step is FAILED and the runner
\* returns at once with status FAILED, failedStep that stage and
\* recoverable = true; the failed stage is the last one invoked, every stage
\* invoked before it completed, and the entries after it are as loaded.
C1_FailureHalts ==
  /\ Running =>
       \A n \in 1..(Len(invoked) - 1) : steps[invoked[n]].status = "COMPLETED"
  /\ pc = "await" => steps[Last(invoked)].status = "RUNNING"
  /\ (Returned /\ result.status = "FAILED") =>
       LET k == StepOf(result.failedStep)
       IN /\ result.steps[k].status = "FAILED"
          /\ result.recoverable = TRUE
          /\ Last(invoked) = k
          /\ \A j \in (k + 1)..Len(STEP_ORDER) : result.steps[j] = steps0[j]

C1_Witness ==
  /\ Returned /\ result.status = "FAILED" /\ result.failedStep = "rewrite"
  /\ Len(invoked) = 3

\* C2: a resume of a run persisted as failed at step k invokes only the
\* executors of steps k and later, and the entries before k of its log stay
\* the COMPLETED entries of the persisted log, which is the log the failed
\* run returned.
C2_ResumeIdempotence ==
  /\ (Running /\ FailedAtLoad >= 1) =>
       /\ \A n \in 1..Len(invoked) : invoked[n] >= FailedAtLoad
       /\ \A j \in 1..(FailedAtLoad - 1) :
            steps[j] = steps0[j] /\ steps0[j].status = "COMPLETED"
  /\ (Returned /\ FailedAtLoad >= 1) =>
       \A j \in 1..(FailedAtLoad - 1) : result.steps[j] = steps0[j]
  /\ (pc = "idle" /\ resp # NoRec /\ resp.ok /\ resp.status = "FAILED") =>
       /\ registry[resp.taskId] # NoRec
       /\ "steps" \in DOMAIN registry[resp.taskId].payload
       /\ registry[resp.taskId].payload.steps = resp.steps

C2_Witness ==
  /\ Returned /\ FailedAtLoad = 3 /\ result.status = "COMPLETED"
  /\ invoked = <<3, 4, 5, 6>>

\* C3: a resume of a run persisted as failed at step k executes step k first:
\* the step is RUNNING with a new startedAt and no errorCode or errorMessage;
\* and when step k and all later stages succeed the resumed run returns
\* COMPLETED.
C3_FailedStepRetried ==
  /\ (Running /\ FailedAtLoad >= 1) => invoked[1] = FailedAtLoad
  /\ (pc = "await" /\ FailedAtLoad >= 1 /\ index = FailedAtLoad) =>
       /\ steps0[index].status = "FAILED"
       /\ steps[index].status = "RUNNING"
       /\ steps[index].startedAt = now
       /\ steps[index].startedAt # steps0[index].startedAt
       /\ steps[index].errorCode = Undef
       /\ steps[index].errorMessage = << >>
  /\ (Returned /\ FailedAtLoad >= 1
        /\ \A i \in FailedAtLoad..Len(STEP_ORDER) : result.steps[i].status = "COMPLETED") =>
       /\ result.status = "COMPLETED"
       /\ invoked = [n \in 1..(Len(STEP_ORDER) - FailedAtLoad + 1) |->
                       FailedAtLoad + n - 1]

C3_Witness ==
  /\ Returned /\ FailedAtLoad = 1 /\ result.status = "COMPLETED"
  /\ steps0[1].errorCode = "VALIDATION_ERROR"
  /\ result.steps[1].startedAt # steps0[1].startedAt

\* C4: the runner returns COMPLETED iff all six steps of the returned log are
\* COMPLETED, then with recoverable = false and no failedStep; otherwise it
\* returns FAILED with exactly one FAILED step, which is failedStep.
C4_StatusMatchesLog ==
  Returned =>
    /\ result.status \in {"COMPLETED", "FAILED"}
    /\ (result.status = "COMPLETED") <=>
         (\A i \in StepIdx : result.steps[i].status = "COMPLETED")
    /\ result.status = "COMPLETED" =>
         (result.recoverable = FALSE /\ result.failedStep = Undef)
    /\ result.status = "FAILED" =>
         /\ result.failedStep # Undef
         /\ WithStatus(result.steps, "FAILED") = {StepOf(result.failedStep)}

C4_Witness ==
  /\ Returned /\ resumed /\ result.status = "COMPLETED"
  /\ \A i \in StepIdx : result.steps[i].status = "COMPLETED"

\* C5: a step log never has two RUNNING steps, in the runner or in the
\* registry, and a log the runner has returned or the entry point has
\* persisted has none.
StoredLogs ==
  {registry[id].payload.steps :
     id \in {x \in TaskIds : /\ registry[x] # NoRec
                             /\ "steps" \in DOMAIN registry[x].payload}}

C5_OneRunning ==
  /\ Cardinality(WithStatus(steps, "RUNNING")) <= 1
  /\ \A log \in StoredLogs : Cardinality(WithStatus(log, "RUNNING")) <= 1
  /\ Returned => WithStatus(result.steps, "RUNNING") = {}
  /\ pc \in {"idle", "returned"} =>
       \A log \in StoredLogs : WithStatus(log, "RUNNING") = {}

C5_Witness ==
  /\ pc = "await" /\ resumed /\ index = 4
  /\ WithStatus(steps, "RUNNING") = {4}

\* C6: in every returned step log the COMPLETED steps form a prefix of the
\* stage order.
C6_CompletedPrefix ==
  Returned =>
    \A i, j \in StepIdx :
      (i < j /\ result.steps[j].status = "COMPLETED") =>
        result.steps[i].status = "COMPLETED"

\* C7: a stage's sub-record exists in the bundle iff the stage's step is
\* COMPLETED, while a run executes and in what it returns.
C7_SubRecordIffCompleted ==
  /\ Running =>
       \A i \in StepIdx :
         (bundle[STEP_ORDER[i]] # NoRec) <=> (steps[i].status = "COMPLETED")
  /\ Returned =>
       \A i \in StepIdx :
         (result.bundle[STEP_ORDER[i]] # NoRec) <=>
           (result.steps[i].status = "COMPLETED")

C9_ResumeKeepsPersisted ==
  (Running /\ resumed) =>
    /\ \A f \in {"projectId", "topic", "researchTool", "timeWindow", "tone",
                 "audience", "length"} :
         bundle[f] = IF body[f] # "" THEN body[f] ELSE base0[f]
    /\ bundle.platforms = IF body.platforms # << >> THEN body.platforms
                          ELSE base0.platforms

\* C10 as stated: before the executor of the next step is invoked, the
\* registry entry of the run records every step completed so far.
C10_PersistedAfterEachStep ==
  pc = "await" =>
    \A n \in 1..(Len(invoked) - 1) :
      \/ /\ "steps" \in DOMAIN registry[taskId].payload
         /\ registry[taskId].payload.steps[invoked[n]] = steps[invoked[n]]
      \/ registry[taskId].progress > reg0.progress

\* C10 amended: the entry point persists a run once, after the runner has
\* returned: while stages execute the entry stays RUNNING at the progress 5 of
\* its registration with the payload bundle it had then, and when the entry
\* point answers the entry holds the returned step log and bundle and the
\* progress computed from the log (100 for a COMPLETED run).
PayloadBundle(task) ==
  IF "bundle" \in DOMAIN task.payload THEN task.payload.bundle ELSE NoRec

C10_PersistedAfterReturn ==
  /\ Running =>
       /\ registry[taskId].status = "RUNNING"
       /\ registry[taskId].progress = 5
       /\ PayloadBundle(registry[taskId]) = PayloadBundle(reg0)
  /\ (pc = "idle" /\ resp # NoRec /\ resp.ok) =>
       /\ registry[resp.taskId] # NoRec
       /\ "steps" \in DOMAIN registry[resp.taskId].payload
       /\ registry[resp.taskId].payload.steps = resp.steps
       /\ PayloadBundle(registry[resp.taskId]) = resp.bundle
       /\ registry[resp.taskId].progress =
            IF resp.status = "COMPLETED" THEN 100 ELSE RouteProgress(resp.steps)

C10_Witness ==
  /\ pc = "await" /\ ~resumed /\ index = 3
  /\ steps[2].status = "COMPLETED"
  /\ registry[taskId].progress = 5
  /\ "steps" \notin DOMAIN registry[taskId].payload

\* C11: when the entry point has answered with status S for task id T,
\* getTask(T) has status S and payload.status S, its payload.steps and
\* payload.bundle are the returned step log and bundle, and
\* payload.failedStep and payload.recoverable are those of the result: no
\* failedStep value for a COMPLETED run, also when an earlier run of T failed.
Answered == pc = "idle" /\ resp # NoRec /\ resp.ok

C11_SnapshotMatchesResult ==
  Answered =>
    LET task == getTask(registry, resp.taskId, now)
    IN /\ task # NoRec
       /\ task.status = resp.status
       /\ {"status", "steps", "bundle", "failedStep", "recoverable"}
            \subseteq DOMAIN task.payload
       /\ task.payload.status = resp.status
       /\ task.payload.steps = resp.steps
       /\ task.payload.bundle = resp.bundle
       /\ task.payload.failedStep = resp.failedStep
       /\ task.payload.recoverable = resp.recoverable
       /\ resp.status = "COMPLETED" =>
            (task.payload.failedStep = Undef /\ task.payload.recoverable = FALSE)
       /\ resp.status = "FAILED" =>
            (task.payload.failedStep \in Range(STEP_ORDER)
             /\ task.payload.recoverable = TRUE)

\* a COMPLETED answer for a task whose earlier run had failed (failTask left
\* its error on the entry)
C11_Witness ==
  /\ Answered /\ resp.status = "COMPLETED"
  /\ registry[resp.taskId].error # NoRec
  /\ registry[resp.taskId].status = "COMPLETED"
  /\ registry[resp.taskId].payload.failedStep = Undef

\* C12: the entry point registers the task as RUNNING, kind workflow, before
\* the first executor is invoked; the entry stays so while stages execute
\* and until the runner has returned, and it is the entry of the task id the
\* answer then carries.
Registered(store, id) ==
  /\ id \in TaskIds
  /\ store[id] # NoRec
  /\ store[id].status = "RUNNING"
  /\ store[id].kind = "workflow"

C12_RegisteredWhileRunning ==
  [][/\ (pc = "idle" /\ pc' # "idle") =>
          (Registered(registry', taskId') /\ Len(invoked') <= 1)
     /\ (pc # "idle" /\ pc' # "idle") =>
          (taskId' = taskId /\ Registered(registry', taskId'))
     /\ (pc = "returned" /\ pc' = "idle") =>
          (Registered(registry, taskId) /\ resp'.ok /\ resp'.taskId = taskId)]_vars

\* a resume of a task that was FAILED, awaiting a later stage
C12_Witness ==
  /\ pc = "await" /\ resumed /\ index >= 2
  /\ registry[taskId].error # NoRec
  /\ Registered(registry, taskId)

\* C13: the envelope reports whether the request is well formed, not how the
\* pipeline ended: a request without resumeTaskId that lacks projectId or
\* topic is answered ok=false, VALIDATION_ERROR, with the registry untouched
\* and no executor invoked; every other request runs, and when its run halts
\* on a failed stage it is answered ok=true with status FAILED and
\* recoverable=true.
WellFormed(b) == b.resumeTaskId # "" \/ (b.projectId # "" /\ b.topic # "")

C13_EnvelopeReportsWellFormedness ==
  [][/\ (requests' # requests /\ pc' = "idle") =>
          /\ ~resp'.ok /\ resp'.code = "VALIDATION_ERROR"
          /\ ~WellFormed(resp'.body)
          /\ registry' = registry
          /\ invoked' = << >>
     /\ (requests' # requests /\ pc' # "idle") =>
          (WellFormed(body') /\ registry'[taskId'] # NoRec)
     /\ (pc = "returned" /\ result.status = "FAILED") =>
          /\ WellFormed(body)
          /\ resp'.ok /\ resp'.status = "FAILED" /\ resp'.recoverable = TRUE
          /\ resp'.failedStep = result.failedStep]_vars

\* a malformed request rejected after a run of t1 was answered FAILED
C13_Witness ==
  /\ pc = "idle" /\ requests = 2
  /\ resp # NoRec /\ ~resp.ok /\ resp.code = "VALIDATION_ERROR"
  /\ registry["t1"] # NoRec /\ registry["t1"].status = "FAILED"
  /\ registry["t1"].payload.recoverable = TRUE
  /\ registry["t2"] = NoRec

Executed(i) == \E n \in 1..Len(invoked) : invoked[n] = i

SkippedStep(i) ==
  /\ steps[i].status = "COMPLETED"
  /\ steps[i].provider = "skipped"
  /\ steps[i].validation.ok
  /\ steps[i].durationMs = 0

Accepts(stepKey, b, out) ==
  CASE stepKey = "research" ->
         verifyResearchResult(out.sources, out.summary, out.titles).ok
    [] stepKey = "draft" -> verifyDraftResult(out.len).ok
    [] stepKey = "rewrite" -> verifyRewriteResult(out.variants, b.platforms).ok
    [] stepKey = "assets" -> verifyAssetResult(out.imageUrl, out.provider).ok
    [] stepKey = "publish" ->
         verifyPublishResult(out.postId, out.editUrl, out.status).ok
    [] stepKey = "analytics" -> TRUE

VerifierRejected ==
  /\ answer # NoRec
  /\ IsOutbound(answer.step, options)
  /\ answer.out.fail = << >>
  /\ ~Accepts(answer.step, bundle, answer.out)

C15_RejectionFailsStage ==
  VerifierRejected =>
    LET k == StepOf(answer.step)
    IN /\ Returned
       /\ result.status = "FAILED" /\ result.failedStep = answer.step
       /\ result.steps[k].status = "FAILED"
       /\ result.steps[k].errorCode = "VALIDATION_ERROR"
       /\ Last(invoked) = k
       /\ result.bundle[answer.step] =
            (IF resumed THEN base0[answer.step] ELSE NoRec)

\* a rewrite answer that lacks variants for some of the platforms
C15_Witness ==
  /\ VerifierRejected /\ answer.step = "rewrite"
  /\ DOMAIN answer.out.variants = {"WECHAT"}
  /\ bundle.platforms = DEFAULT_PLATFORMS
  /\ result.bundle.rewrite = NoRec
  /\ result.bundle.draft # NoRec

\* C16: when the outbound call of a stage exceeds its timeout, the step is
\* FAILED with errorCode PROVIDER_TIMEOUT and the run halts with
\* recoverable = true.
TimedOut ==
  /\ answer # NoRec
  /\ answer.out.fail = <<"This operation was aborted">>

C16_TimeoutIsProviderTimeout ==
  TimedOut =>
    /\ Returned
    /\ result.status = "FAILED" /\ result.recoverable = TRUE
    /\ result.failedStep = answer.step
    /\ result.steps[StepOf(answer.step)].status = "FAILED"
    /\ result.steps[StepOf(answer.step)].errorCode = "PROVIDER_TIMEOUT"

\* C17: the errorCode of every FAILED step, in the runner's log and in the
\* stored logs, is one of the six taxonomy codes.
ErrorTaxonomy ==
  {"VALIDATION_ERROR", "PROVIDER_TIMEOUT", "PROVIDER_UNAVAILABLE",
   "RATE_LIMITED", "WP_AUTH_FAILED", "UNKNOWN_ERROR"}

C17_ErrorCodeInTaxonomy ==
  \A log \in StoredLogs \cup {steps} :
    \A i \in WithStatus(log, "FAILED") : log[i].errorCode \in ErrorTaxonomy

C19_VariantsCoverPlatforms ==
  (Returned /\ result.status = "COMPLETED") =>
    /\ result.bundle.finalOutput.platformCount = Len(result.bundle.platforms)
    /\ \A p \in Range(result.bundle.platforms) :
         /\ p \in DOMAIN result.bundle.rewrite.variants
         /\ result.bundle.rewrite.variants[p].body # ""
         /\ result.bundle.rewrite.variants[p].titleCandidates > 0


\* C20: a fresh run with non-empty projectId and topic, the default
\* platforms, generateAsset = false and publishToWordpress = false, in a
\* deployment without search and LLM credentials, ends COMPLETED: whatever a
\* stage endpoint answers passes the stage's verifier, no stage throws, no
\* stage is left FAILED, and bundle.research.sources holds at least one
\* source, the synthetic one of the research endpoint.
FallbackRun ==
  /\ ~credentials
  /\ pc # "idle"
  /\ body.resumeTaskId = "" /\ ~resumed
  /\ body.projectId # "" /\ body.topic # ""
  /\ body.platforms = << >>
  /\ body.generateAsset = "false" /\ body.publishToWordpress = "false"

C20_FallbackRunCompletes ==
  FallbackRun =>
    /\ bundle.platforms = DEFAULT_PLATFORMS
    /\ \A k \in 1..Len(steps) : steps[k].status # "FAILED"
    /\ pc = "await" =>
         \A out \in Outcomes(STEP_ORDER[index], options, bundle) :
           /\ out.fail = << >>
           /\ IsOutbound(STEP_ORDER[index], options) =>
                Accepts(STEP_ORDER[index], bundle, out)
           /\ runStage(STEP_ORDER[index], options, bundle, out).thrown = << >>
    /\ pc = "returned" =>
         /\ result.status = "COMPLETED"
         /\ invoked = <<1, 2, 3, 4, 5, 6>>
         /\ result.bundle.research.sources >= 1
         /\ result.bundle.draft.content >= 200
         /\ DOMAIN result.bundle.rewrite.variants = Range(DEFAULT_PLATFORMS)
         /\ result.bundle.assets.provider = "skipped"
         /\ result.bundle.publish.status = "skipped"

\* the run has returned COMPLETED on the synthetic source alone
C20_Witness ==
  /\ FallbackRun /\ pc = "returned"
  /\ result.status = "COMPLETED"
  /\ result.bundle.research.sources = 1
  /\ result.bundle.research.provider \in {"unknown", "none"}
  /\ result.bundle.research.insight.summary = "summary of growth"
  /\ result.bundle.draft.content = 2584

(* ------------------------ claims on the registry ----------------------- *)
\* x > n and x < n for a JavaScript number x and an integer n
Above(x, n) == x # NaN /\ (IF IsHalf(x) THEN x - HalfBase >= n ELSE x > n)
Below(x, n) == x # NaN /\ (IF IsHalf(x) THEN x - HalfBase < n ELSE x < n)

Writes == {"upsert", "patch", "complete", "fail"}

\* the last call wrote a progress to a task that exists
WroteProgress ==
  /\ call # NoRec /\ call.op \in Writes
  /\ "progress" \in DOMAIN call.arg
  /\ registry[call.id] # NoRec

\* C21 as stated: every stored progress is an integer in [0,100]; a written
\* value above 100 is stored as 100 and one below 0 as 0, non-finite values
\* included.
C21_ProgressClamped ==
  /\ \A id \in TaskIds : registry[id] # NoRec => registry[id].progress \in 0..100
  /\ WroteProgress =>
       /\ Above(call.arg.progress, 100) => registry[call.id].progress = 100
       /\ Below(call.arg.progress, 0) => registry[call.id].progress = 0

\* C21 amended: every stored progress is an integer in [0,100]; a finite
\* written value above 100 is stored as 100, a finite one below 0 as 0, one
\* in between as the nearest integer, and a non-finite one (NaN, Infinity,
\* -Infinity) as 0.
C21_FiniteProgressClamped ==
  /\ \A id \in TaskIds : registry[id] # NoRec => registry[id].progress \in 0..100
  /\ WroteProgress =>
       LET given == call.arg.progress
           stored == registry[call.id].progress
       IN /\ isFinite(given) /\ Above(given, 100) => stored = 100
          /\ isFinite(given) /\ Below(given, 0) => stored = 0
          /\ isFinite(given) /\ ~Above(given, 100) /\ ~Below(given, 0) =>
               stored = MathRound(given)
          /\ ~isFinite(given) => stored = 0

\* a failTask with progress 140 on a task has stored 100
C21_Witness ==
  /\ WroteProgress /\ call.op = "fail"
  /\ call.arg.progress = 140
  /\ registry[call.id].progress = 100
  /\ registry[call.id].status = "FAILED"

\* C22: a payload written by upsertTask, patchTask, completeTask or failTask
\* to an existing task is merged into the stored payload at its top-level
\* keys: the keys of the call get the values of the call, every other stored
\* key keeps its value, and no key is lost; a call without payload leaves the
\* payload as it is.  (upsert {a:1} then patch {b:2} gives {a:1, b:2}.)
C22_PayloadMerged ==
  [][call'.op \in Writes /\ getTaskRegistry(registry, now)[call'.id] # NoRec =>
       LET old == Obj(getTaskRegistry(registry, now)[call'.id].payload)
           given == Obj(Get(call'.arg, "payload", NoRec))
           new == Obj(registry'[call'.id].payload)
       IN /\ DOMAIN new = DOMAIN old \cup DOMAIN given
          /\ \A k \in DOMAIN new :
               new[k] = IF k \in DOMAIN given THEN given[k] ELSE old[k]]_vars

\* upsert {a:1}, then patch {b:2}: the payload is {a:1, b:2}
C22_Witness ==
  /\ call # NoRec /\ call.op = "patch"
  /\ call.arg = [payload |-> [b |-> 2]]
  /\ registry[call.id] # NoRec
  /\ registry[call.id].payload = [a |-> 1, b |-> 2]
  /\ written[call.id].payload.a.last = "w1"

\* C23: however the writes of the two writers to one taskId interleave,
\* a payload key written by one writer only is in the stored payload (with
\* the value that writer wrote last), and a payload key or a field written by
\* several writers has the value of the write executed last.
C23_LastWriteWins ==
  \A id \in TaskIds :
    registry[id] # NoRec =>
      LET w == written[id]
          payload == Obj(registry[id].payload)
      IN /\ \A k \in DOMAIN w.payload :
              /\ Cardinality(w.payload[k].writers) = 1 => k \in DOMAIN payload
              /\ k \in DOMAIN payload /\ payload[k] = w.payload[k].value
         /\ \A f \in DOMAIN w.field :
              registry[id][f] = w.field[f].value

\* w1 wrote a, w2 wrote a and b, w1 wrote a again: b of w2 survives next to
\* the a of w1, and the status w2 wrote stays
C23_Witness ==
  \E id \in TaskIds :
    /\ registry[id] # NoRec
    /\ call # NoRec /\ call.op = "patch" /\ call.id = id /\ call.by = "w1"
    /\ {"a", "b"} \subseteq DOMAIN written[id].payload
    /\ "status" \in DOMAIN written[id].field
    /\ written[id].payload.a.writers = {"w1", "w2"}
    /\ written[id].payload.b.writers = {"w2"}
    /\ registry[id].payload = [a |-> 3, b |-> 2]
    /\ written[id].field.status.last = "w2"
    /\ registry[id].status = "FAILED"

\* C24: patchTask, completeTask and failTask on a taskId the registry does
\* not hold return undefined and create no entry; the entries the registry
\* holds stay as they are (the registry is left as the purge of expired
\* entries, which every access performs, leaves it).
C24_AbsentIsNoOp ==
  [][call'.op \in {"patch", "complete", "fail"}
       /\ getTaskRegistry(registry, now)[call'.id] = NoRec =>
       /\ ret' = NoRec
       /\ registry'[call'.id] = NoRec
       /\ registry' = getTaskRegistry(registry, now)
       /\ Range(order') = {j \in TaskIds : registry'[j] # NoRec}]_vars

\* failTask on an absent id while the registry holds another task
C24_Witness ==
  /\ call # NoRec /\ call.op = "fail" /\ call.arg # EmptyObj
  /\ ret = NoRec
  /\ registry[call.id] = NoRec
  /\ \E j \in TaskIds : registry[j] # NoRec /\ registry[j].status = "RUNNING"

\* C25: on a task the registry holds, completeTask leaves status COMPLETED,
\* endedAt at the time of the call and progress 100, or the clamped progress
\* of the patch if it has one; failTask leaves status FAILED, the given
\* error, endedAt at the time of the call and the progress as it was, or the
\* clamped progress of the patch if it has one.
C25_CompleteAndFail ==
  [][call'.op \in {"complete", "fail"}
       /\ getTaskRegistry(registry, now)[call'.id] # NoRec =>
       LET old == getTaskRegistry(registry, now)[call'.id]
           new == registry'[call'.id]
           supplied == "progress" \in DOMAIN call'.arg
       IN /\ ret' = new
          /\ new.endedAt = now
          /\ new.progress \in 0..100
          /\ call'.op = "complete" =>
               /\ new.status = "COMPLETED"
               /\ ~supplied => new.progress = 100
               /\ supplied /\ call'.arg.progress = Half(39) => new.progress = 40
          /\ call'.op = "fail" =>
               /\ new.status = "FAILED"
               /\ new.error = Unavailable
               /\ ~supplied => new.progress = old.progress
               /\ supplied /\ call'.arg.progress = 140 => new.progress = 100]_vars

\* a task completed, some time after its creation, with progress 39.5
C25_Witness ==
  /\ call # NoRec /\ call.op = "complete"
  /\ "progress" \in DOMAIN call.arg /\ call.arg.progress = Half(39)
  /\ registry[call.id] # NoRec
  /\ ret = registry[call.id]
  /\ registry[call.id].status = "COMPLETED"
  /\ registry[call.id].progress = 40
  /\ registry[call.id].endedAt = now
  /\ registry[call.id].startedAt < now

\* C26: upsertTask on a taskId the registry does not hold creates a snapshot
\* with the given status, or RUNNING if none is given, and startedAt equal to
\* updatedAt; on a held taskId it merges the fields, keeps startedAt and sets
\* updatedAt to the time of the call.  While an entry is held, no upsert,
\* patch, complete or fail changes its startedAt or lowers its updatedAt.
C26_UpsertFrame ==
  [][LET cleaned == getTaskRegistry(registry, now)
     IN /\ call'.op = "upsert" =>
             LET old == cleaned[call'.id]
                 new == registry'[call'.id]
             IN /\ new # NoRec /\ ret' = new
                /\ new.updatedAt = now
                /\ new.kind = call'.arg.kind
                /\ old = NoRec =>
                     /\ new.status = Get(call'.arg, "status", "RUNNING")
                     /\ new.startedAt = new.updatedAt
                /\ old # NoRec =>
                     /\ new.status = Get(call'.arg, "status", old.status)
                     /\ new.startedAt = old.startedAt
        /\ \A j \in TaskIds :
             cleaned[j] # NoRec /\ registry'[j] # NoRec =>
               /\ registry'[j].startedAt = cleaned[j].startedAt
               /\ registry'[j].updatedAt >= cleaned[j].updatedAt]_vars

\* w1 created the task, the clock moved, w2 upserted it as FAILED
C26_Witness ==
  /\ call # NoRec /\ call.op = "upsert" /\ call.by = "w2"
  /\ registry[call.id] # NoRec
  /\ "kind" \in DOMAIN written[call.id].field
  /\ written[call.id].field.kind.writers = {"w1", "w2"}
  /\ registry[call.id].status = "FAILED"
  /\ registry[call.id].startedAt < registry[call.id].updatedAt
  /\ registry[call.id].updatedAt = now

\* C27: every access to the registry (get, list, upsert, patch, complete,
\* fail) at time t first removes the entries whose updatedAt is more than 24h
\* before t: getTask and listTasks do not return such an entry, an upsert on
\* such a taskId creates a fresh snapshot (started at t, with the payload of
\* the call only), and no entry updated within the last 24h is removed.
C27_PurgeOnAccess ==
  [][call'.op # "step" =>
       LET held(j) == registry[j] # NoRec
           expired(j) == held(j) /\ now - registry[j].updatedAt > 24 * 60 * 60 * 1000
       IN /\ \A j \in TaskIds :
               /\ expired(j) /\ ~(call'.op = "upsert" /\ call'.id = j) =>
                    registry'[j] = NoRec
               /\ expired(j) /\ call'.op = "upsert" /\ call'.id = j =>
                    /\ registry'[j].startedAt = now
                    /\ registry'[j].payload = Get(call'.arg, "payload", NoRec)
                    /\ registry'[j].endedAt = NoTime
               /\ held(j) /\ ~expired(j) => registry'[j] # NoRec
          /\ call'.op = "get" =>
               ret' = IF held(call'.id) /\ ~expired(call'.id)
                      THEN registry[call'.id] ELSE NoRec
          /\ call'.op = "list" =>
               \A n \in DOMAIN ret' :
                 held(ret'[n].taskId) /\ ~expired(ret'[n].taskId)]_vars

\* a day and a millisecond after the first call, w1 upserts a task: what the
\* registry holds under the id is the snapshot of this call alone
C27_Witness ==
  /\ call # NoRec /\ call.op = "upsert" /\ call.by = "w1"
  /\ calls = 3
  /\ now = MAX_AGE_MS + 1
  /\ registry[call.id] # NoRec
  /\ registry[call.id].startedAt = now
  /\ registry[call.id].payload = [a |-> 1]
  /\ \A j \in TaskIds : j # call.id => registry[j] = NoRec

(* ------------------------- claims on the listings ---------------------- *)
Matches(task, q) ==
  /\ "kind" \in DOMAIN q => task.kind = q.kind
  /\ "projectId" \in DOMAIN q => task.projectId = q.projectId
  /\ "status" \in DOMAIN q =>
       task.status \in (IF "one" \in DOMAIN q.status THEN {q.status.one}
                        ELSE Range(q.status.array))

\* the stored tasks matching q, newest first, cut to the first n
Listed(list, q, n) ==
  LET matching == {j \in TaskIds : registry[j] # NoRec /\ Matches(registry[j], q)}
      ids == {list[m].taskId : m \in DOMAIN list}
  IN /\ ids \subseteq matching
     /\ \A m \in DOMAIN list : list[m] = registry[list[m].taskId]
     /\ \A m, k \in DOMAIN list :
          /\ m < k => list[m].updatedAt >= list[k].updatedAt
          /\ m # k => list[m].taskId # list[k].taskId
     /\ \A j \in matching \ ids :
          \A m \in DOMAIN list : list[m].updatedAt >= registry[j].updatedAt
     /\ Len(list) = Min(n, Cardinality(matching))

IsCount(q) == "limit" \in DOMAIN q /\ isFinite(q.limit)

\* C28 as stated: listTasks returns exactly the stored tasks that match every
\* filter of the query, newest first, cut to the limit most recently updated
\* ones when the query has a limit.
C28_ListTasksLimit ==
  call # NoRec /\ call.op = "list" =>
    Listed(ret, call.arg,
           IF IsCount(call.arg) THEN call.arg.limit ELSE Cardinality(TaskIds))

\* C28: listTasks returns exactly the stored tasks that match every filter of
\* the query, newest first, cut to the max(1, floor(limit)) most recently
\* updated ones when the query has a limit.
C28_ListTasksAtLeastOne ==
  call # NoRec /\ call.op = "list" /\ ("limit" \in DOMAIN call.arg => IsCount(call.arg)) =>
    Listed(ret, call.arg,
           IF IsCount(call.arg) THEN Max(1, MathFloor(call.arg.limit))
           ELSE Cardinality(TaskIds))

\* two stored tasks, listed with limit 0: the newer one is returned
C28_Witness ==
  /\ call # NoRec /\ call.op = "list"
  /\ "limit" \in DOMAIN call.arg /\ call.arg.limit = 0
  /\ Cardinality({j \in TaskIds : registry[j] # NoRec}) = 2
  /\ Len(ret) = 1
  /\ \E j \in TaskIds : registry[j] # NoRec /\ registry[j].updatedAt < ret[1].updatedAt
  /\ order[2] = ret[1].taskId

\* a RUNNING task that never got past its registration, 3 minutes ago or more
Abandoned(task) ==
  /\ task.status = "RUNNING"
  /\ task.progress <= 5
  /\ "steps" \notin DOMAIN Obj(task.payload)
  /\ task.startedAt = task.updatedAt
  /\ now - task.updatedAt > 3 * 60 * 1000

\* the RUNNING and FAILED workflow tasks of the project that are not abandoned
Candidates(projectId) ==
  {j \in TaskIds :
     /\ registry[j] # NoRec
     /\ registry[j].kind = "workflow"
     /\ registry[j].status \in {"RUNNING", "FAILED"}
     /\ projectId # "" => registry[j].projectId = projectId
     /\ ~Abandoned(registry[j])}

ListedIds == {ret.tasks[n].taskId : n \in DOMAIN ret.tasks}

IsBlank(chars) == \A i \in DOMAIN chars : chars[i] = " "

\* the platform has a row with a body that is not blank and a title candidate
Populated(variants, platform) ==
  /\ platform \in DOMAIN variants
  /\ "body" \in DOMAIN variants[platform]
  /\ ~IsBlank(variants[platform].body)
  /\ variants[platform].titleCandidates > 0

\* C30: verifyRewriteResult answers ok = false whenever a required platform
\* is missing from the variants or has a blank body or no title candidate,
\* whatever the other platforms hold; its checks are rewrite.variants.min
\* followed by rewrite.<P>.body and rewrite.<P>.title for each required
\* platform P in turn, and ok is true iff every check passed.
C30_VerifierMonotone ==
  call # NoRec /\ call.op = "verifyRewriteResult" =>
    LET required == call.requiredPlatforms
        checks == ret.checks
    IN /\ (\E i \in DOMAIN required : ~Populated(call.variants, required[i]))
            => ~ret.ok
       /\ Len(checks) = 1 + 2 * Len(required)
       /\ checks[1].key = <<"rewrite", "variants", "min">>
       /\ checks[1].passed <=> DOMAIN call.variants # {}
       /\ \A i \in DOMAIN required :
            /\ checks[2 * i].key = <<"rewrite", required[i], "body">>
            /\ checks[2 * i + 1].key = <<"rewrite", required[i], "title">>
       /\ ret.ok <=> \A n \in DOMAIN checks : checks[n].passed

\* WECHAT and WEIBO are required, WEIBO and BILIBILI are fully populated and
\* the body of WECHAT is blank: five checks, one of them failed
C30_Witness ==
  /\ call # NoRec /\ call.op = "verifyRewriteResult"
  /\ call.requiredPlatforms = <<"WECHAT", "WEIBO">>
  /\ DOMAIN call.variants = {"WECHAT", "WEIBO", "BILIBILI"}
  /\ Populated(call.variants, "WEIBO") /\ Populated(call.variants, "BILIBILI")
  /\ call.variants["WECHAT"] = [body |-> <<" ", " ">>, titleCandidates |-> 1]
  /\ ~ret.ok
  /\ Len(ret.checks) = 5
  /\ {n \in DOMAIN ret.checks : ~ret.checks[n].passed} = {2}

\* the length of the content from its first to its last character that is no
\* white space
TrimmedLength(content) ==
  LET inked == {i \in DOMAIN content : content[i] # " "}
  IN IF inked = {} THEN 0
     ELSE (CHOOSE i \in inked : \A j \in inked : j <= i)
          - (CHOOSE i \in inked : \A j \in inked : i <= j) + 1

\* C31: verifyDraftResult answers ok = true iff the content without its
\* surrounding white space has at least 200 characters; the first of its two
\* checks passes iff that content is not empty, so content of white space
\* only fails both.
C31_DraftLengthGate ==
  call # NoRec /\ call.op = "verifyDraftResult" =>
    LET n == TrimmedLength(call.content)
    IN /\ ret.ok <=> n >= 200
       /\ Len(ret.checks) = 2
       /\ ret.checks[1].key = <<"draft", "content", "non_empty">>
       /\ ret.checks[2].key = <<"draft", "content", "min_chars">>
       /\ ret.checks[1].passed <=> n > 0
       /\ ret.checks[2].passed <=> n >= 200

\* a content of 200 characters between two spaces on either side passes
C31_Witness ==
  /\ call # NoRec /\ call.op = "verifyDraftResult"
  /\ Len(call.content) = 204
  /\ call.content[2] = " " /\ call.content[3] = "a" /\ call.content[202] = "a"
  /\ call.content[203] = " "
  /\ ret.ok

(* -------------------------- claims on the entry point ------------------ *)
\* round(n / 6 * 100) for n = 0..6
SixthsPercent == <<0, 17, 33, 50, 67, 83, 100>>

\* C32: when the entry point has answered, the task holds progress
\* round(completedSteps / 6 * 100) if the run FAILED, completedSteps being the
\* number of COMPLETED entries of the returned step log, and progress 100 if
\* the run COMPLETED; the progress of a FAILED task is below 100.
C32_FinalProgress ==
  Answered =>
    LET task == registry[resp.taskId]
        completedSteps ==
          Cardinality({i \in DOMAIN resp.steps : resp.steps[i].status = "COMPLETED"})
    IN /\ Len(resp.steps) = 6
       /\ resp.status = "FAILED" =>
            /\ task.status = "FAILED"
            /\ task.progress = SixthsPercent[completedSteps + 1]
            /\ task.progress < 100
       /\ resp.status = "COMPLETED" =>
            /\ task.status = "COMPLETED"
            /\ task.progress = 100

\* a run that failed at its third stage: progress 33
C32_Witness ==
  /\ Answered /\ resp.status = "FAILED" /\ resp.failedStep = "rewrite"
  /\ resp.steps[1].status = "COMPLETED" /\ resp.steps[2].status = "COMPLETED"
  /\ registry[resp.taskId].progress = 33

\* the run in flight resumed a task whose persisted log is COMPLETED throughout
ResumedCompleted ==
  /\ Running /\ resumed
  /\ \A i \in StepIdx : steps0[i].status = "COMPLETED"

\* C33: a resume of a task whose persisted step log has all six steps
\* COMPLETED gets resume index 0 (1 here) and skips nothing: the executors
\* are invoked in order from research on, each invoked step is marked RUNNING
\* with a startedAt later than the persisted one, and the run returns only
\* after a stage failed or all six were executed again.
C33_CompletedRunIsRepeated ==
  ResumedCompleted =>
    /\ resumeIndex = 1
    /\ Len(invoked) >= 1
    /\ \A n \in DOMAIN invoked : invoked[n] = n
    /\ \A n \in DOMAIN invoked :
         steps[invoked[n]].startedAt > steps0[invoked[n]].startedAt
    /\ pc = "await" =>
         /\ steps[index].status = "RUNNING"
         /\ steps[index].startedAt = startedAt
    /\ (Returned /\ result.status = "COMPLETED") => Len(invoked) = 6
    /\ (Returned /\ result.status = "FAILED") =>
         result.failedStep = STEP_ORDER[Len(invoked)]

\* the six stages of a completed run executed once more
C33_Witness ==
  /\ ResumedCompleted
  /\ Returned /\ result.status = "COMPLETED"
  /\ invoked = <<1, 2, 3, 4, 5, 6>>
  /\ base0.finalOutput # NoRec

\* the request in flight names a task to resume that holds no bundle
NothingToResume ==
  /\ Running /\ body.resumeTaskId # ""
  /\ "bundle" \notin DOMAIN reg0.payload

C35_RunTerminates ==
  [][/\ Len(invoked') <= 6
     /\ pc' = "await" =>
          /\ index' \in 1..6
          /\ Outcomes(STEP_ORDER[index'], options', bundle') # {}
          /\ registry'[taskId'].status = "RUNNING"
     /\ pc = "await" => pc' \in {"await", "returned"}
     /\ (pc = "await" /\ pc' = "await") =>
          /\ index' > index
          /\ Len(invoked') = Len(invoked) + 1
     /\ pc = "returned" =>
          /\ pc' = "idle"
          /\ resp'.ok /\ resp'.taskId = taskId
          /\ registry'[taskId].status \in {"COMPLETED", "FAILED"}
          /\ registry'[taskId].status = result.status]_vars

\* a resumed run answered as COMPLETED after its task had been RUNNING
C35_Witness ==
  /\ Answered /\ requests = 2
  /\ resp.status = "COMPLETED"
  /\ registry[resp.taskId].status = "COMPLETED"
  /\ registry[resp.taskId].error # NoRec

\* the ids of the tasks the recovery listing returns for the project
RecoverableIn(store, ord, projectId, t) ==
  LET listing == recoverList(store, ord,
                             [projectId |-> projectId, byProject |-> FALSE], t)
  IN {listing.tasks[n].taskId : n \in DOMAIN listing.tasks}

\* C36: a resume request that carries resumeTaskId and no projectId, traceId
\* or idempotencyKey leaves the projectId, traceId and idempotencyKey of the
\* task snapshot as they were, and if the resumed run fails again, the
\* recovery listing of the project the task was created for still returns
\* the task.
C36_ProjectKeptAcrossResume ==
  [][/\ (/\ pc = "idle" /\ pc' # "idle" /\ resumed'
         /\ body'.projectId = "" /\ body'.traceId = ""
         /\ body'.idempotencyKey = "") =>
          /\ registry'[taskId'].projectId = registry[taskId'].projectId
          /\ registry'[taskId'].traceId = registry[taskId'].traceId
          /\ registry'[taskId'].idempotencyKey = registry[taskId'].idempotencyKey
     /\ (/\ pc = "returned" /\ resumed /\ result.status = "FAILED"
         /\ body.projectId = "" /\ base0.projectId # "") =>
          taskId \in RecoverableIn(registry', order', base0.projectId, now')]_vars

\* C37: when a run has halted on a failed stage, the error stored on the task
\* carries the error code of the failed step, and its retriable flag is false
\* for VALIDATION_ERROR and WP_AUTH_FAILED and true for every other code.
NotRetriable == {"VALIDATION_ERROR", "WP_AUTH_FAILED"}

C37_StoredErrorFollowsStep ==
  (Answered /\ resp.status = "FAILED") =>
    LET task == registry[resp.taskId]
        code == resp.steps[StepOf(resp.failedStep)].errorCode
    IN /\ task.error # NoRec
       /\ task.error.code = code
       /\ task.error.retriable = (code \notin NotRetriable)

\* C38: a task carries an error only while it is FAILED and an endedAt only
\* while it is COMPLETED or FAILED: a task that failed, was resumed and
\* completed has no error, and a task whose resumed run is executing has no
\* endedAt.
C38_ErrorOnlyWhileFailed ==
  \A id \in TaskIds :
    registry[id] # NoRec =>
      /\ registry[id].error # NoRec => registry[id].status = "FAILED"
      /\ registry[id].endedAt # NoTime =>
           registry[id].status \in {"COMPLETED", "FAILED"}

\* C39: the latest-task lookup answers found=true with the most recently
\* updated RUNNING or FAILED workflow task of the project that is not
\* abandoned whenever the registry holds one, however many abandoned RUNNING
\* tasks were updated after it.
Recoverable(projectId) ==
  {j \in DOMAIN registry :
     /\ registry[j] # NoRec
     /\ registry[j].kind = "workflow"
     /\ registry[j].status \in {"RUNNING", "FAILED"}
     /\ registry[j].projectId = projectId
     /\ ~Abandoned(registry[j])}

C39_LatestIsFound ==
  (call # NoRec /\ call.op = "recover") =>
    LET found == Recoverable(call.arg.projectId)
    IN found # {} =>
         /\ ret.found
         /\ ret.resumeTaskId \in found
         /\ \A j \in found : registry[j].updatedAt <= ret.task.updatedAt

\* C40: while a resumed run executes, from the entry point's upsert to its
\* writes after the runner has returned, the step log stored under
\* payload.steps is the log the previous run persisted: the registry does
\* not show the step changes of the runner.
C40_StoredLogUntouched ==
  (Running /\ resumed /\ "steps" \in DOMAIN reg0.payload) =>
    /\ registry[taskId] # NoRec
    /\ "steps" \in DOMAIN registry[taskId].payload
    /\ registry[taskId].payload.steps = reg0.payload.steps

====
